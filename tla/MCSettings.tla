----------------------------- MODULE MCSettings -----------------------------
(***************************************************************************)
(* Settings with a few forms: two sets of limits besides the defaults, one *)
(* of them upside down, a network, and the log server taken away again.    *)
(***************************************************************************)
EXTENDS Settings

LimitsForm(low, high, seconds) ==
    [kind |-> "limits",
     value |-> [low_limit |-> low, high_limit |-> high, afterrun |-> seconds]]

CredentialsForm(name, word) ==
    [kind |-> "credentials", value |-> [username |-> name, password |-> word]]

LoggingForm(host, port) ==
    [kind |-> "logging", value |-> [udp_server |-> host, udp_port |-> port]]

MCForms == {LimitsForm(40, 80, 60), LimitsForm(120, 30, 0),
            CredentialsForm(11, 12), LoggingForm(Blank, 22)}

=============================================================================
