---------------------------- MODULE Conversation ----------------------------
(***************************************************************************)
(* What a protocol session promises: the log of exchanged messages grows   *)
(* by what the grammar forecasts next, as it is or as evolution has        *)
(* reworked it, and no further once it has left the grammar.  A session    *)
(* that goes on or succeeds has met the constraints, and it succeeds only  *)
(* when nothing is forecast.  A session may fail at any time.              *)
(***************************************************************************)
EXTENDS Protocol

VARIABLES
    log,       \* the messages exchanged
    lost,      \* message nodes of the last addition without their senders
    status

vars == <<log, lost, status>>

TypeOK == /\ log \in Seq(Entries)
          /\ lost \in Seq(LostEntries)
          /\ status \in {"open", "done", "failed"}

Init == /\ log = <<>>
        /\ lost = <<>>
        /\ status = "open"

(* A message that violates the constraints is recorded, but ends the       *)
(* session.                                                                *)
Exchange ==
    /\ status = "open"
    /\ \E p \in Forecast(PacketsOf(log)) : \E n \in Additions(PacketsOf(log), p) :
          log' = log \o n.said /\ lost' = n.lost
    /\ IF Accepted(log' \o lost') THEN status' = "open"
                                  ELSE status' = "failed"

Finish == /\ status = "open"
          /\ log # <<>>
          /\ Forecast(PacketsOf(log)) = {}
          /\ status' = "done"
          /\ UNCHANGED <<log, lost>>

Fail == /\ status = "open"
        /\ status' = "failed"
        /\ UNCHANGED <<log, lost>>

Restart == /\ status # "open"
           /\ log' = <<>>
           /\ lost' = <<>>
           /\ status' = "open"

Next == Exchange \/ Finish \/ Fail \/ Restart

Spec == Init /\ [][Next]_vars

-----------------------------------------------------------------------------

(* A log that begins no conversation of the grammar grows no more.         *)
NothingAfterStraying ==
    [][log' # log /\ log' # <<>> => PacketsOf(log) \in Beginnings]_vars

(* A session that has succeeded holds a tree that meets the constraints,   *)
(* and a whole conversation, unless its last addition left the grammar.    *)
DoneMeansComplete ==
    status = "done" =>
        /\ log # <<>>
        /\ Accepted(log \o lost)
        /\ PacketsOf(log) \in Beginnings => PacketsOf(log) \in Language

(* The log is the beginning of a conversation of the grammar, each of its  *)
(* messages a word of its nonterminal.                                     *)
Conforms == /\ PacketsOf(log) \in Beginnings
            /\ \A i \in DOMAIN log : log[i].word \in Words[log[i].nt]

=============================================================================
