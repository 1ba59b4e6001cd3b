---------------------------- MODULE ResolveOnce ----------------------------
(***************************************************************************)
(* What the package context promises the conversions that share it: a      *)
(* package is decided once, to a header or to a failure, and every import  *)
(* of one of its exports is answered from that decision.                   *)
(***************************************************************************)
CONSTANTS Packages, Headers, Undecided, Failed, Answer(_, _, _), Hashes

VARIABLES outcome,  \* package -> Undecided, Failed or its header
          answers   \* every answer given

ResolveInit ==
    /\ outcome = [p \in Packages |-> Undecided]
    /\ answers = {}

Decide(p) ==
    /\ outcome[p] = Undecided
    /\ \E o \in Headers \cup {Failed} : outcome' = [outcome EXCEPT ![p] = o]
    /\ UNCHANGED answers

Reply(p, h) ==
    /\ outcome[p] # Undecided
    /\ answers' = answers \cup {[package |-> p, hash |-> h, answer |-> Answer(p, h, outcome[p])]}
    /\ UNCHANGED outcome

resolveVars == <<outcome, answers>>

ResolveNext == \E p \in Packages : Decide(p) \/ \E h \in Hashes : Reply(p, h)

ResolveSpec == ResolveInit /\ [][ResolveNext]_resolveVars
=============================================================================
