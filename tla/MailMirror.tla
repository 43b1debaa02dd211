----------------------------- MODULE MailMirror -----------------------------
(***************************************************************************)
(* What every synchronizer promises of an account's copy, whatever its     *)
(* provider and its protocol: the copy of a message only moves forward,    *)
(* through versions the message has had, and a message is dropped from the *)
(* copy only when the mailbox no longer has it.                            *)
(*                                                                         *)
(* GmailSync and MicrosoftSync implement this module.                      *)
(***************************************************************************)
EXTENDS Integers

CONSTANTS
    Msg,    \* provider message ids
    Absent  \* the version of a message that is not there: below every other

VARIABLES
    mailbox,  \* the provider: version of every message
    copy,     \* what is committed: version of every message
    clock     \* the provider: how many changes it has made

vars == <<mailbox, copy, clock>>

Init ==
    /\ clock \in Int
    /\ mailbox \in [Msg -> {Absent, clock}]
    /\ copy = [m \in Msg |-> Absent]

\* The provider changes some messages, or removes them.
Change ==
    /\ clock' = clock + 1
    /\ DOMAIN mailbox' = Msg
    /\ \A m \in Msg : mailbox'[m] \in {mailbox[m], clock', Absent}
    /\ UNCHANGED copy

\* May the copy of m become version v?
Forward(m, v) ==
    \/ v = Absent /\ mailbox[m] = Absent
    \/ v > copy[m] /\ v <= clock /\ (mailbox[m] # Absent => v <= mailbox[m])

\* A synchronizer commits: any number of messages at once.
Save ==
    /\ DOMAIN copy' = Msg
    /\ \A m \in Msg : copy'[m] = copy[m] \/ Forward(m, copy'[m])
    /\ UNCHANGED <<mailbox, clock>>

Next == Change \/ Save
Spec == Init /\ [][Next]_vars
=============================================================================
