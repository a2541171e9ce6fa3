--------------------------- MODULE MemoryCandidates ---------------------------
(***************************************************************************)
(* A lesson that an agent proposes becomes memory only when a person says so. *)
(* Requests to resolve one candidate run side by side in pool threads; each   *)
(* reads the row, updates it, reads it again and writes the note.            *)
(***************************************************************************)
EXTENDS FiniteSets

CONSTANTS Requests,   \* POST /api/memory/candidates/{id}/resolve
          Actors,     \* people and agents
          Nobody      \* no name given

Decisions == {"approved", "rejected"}

VARIABLES row,       \* the candidate: its status, who proposed and who resolved it
          req,       \* req[r]: how far a request is, what it asks, what it read last
          note,      \* who the note in the vault says has approved, or {} if none
          granted,   \* history: who has approved with the check behind them
          crossed    \* history: two requests passed the check before either updated

memoryVars == <<row, req, note, granted, crossed>>

TypeOK == /\ row \in [status : {"candidate"} \cup Decisions,
                      proposed_by : Actors \cup {Nobody},
                      resolved_by : Actors \cup {Nobody}]
          /\ req \in [Requests -> [pc : {"new", "checked", "updated", "reread", "done"},
                                   decision : Decisions, actor : Actors,
                                   read : Actors \cup {Nobody}]]
          /\ note \in {{}} \cup {{a} : a \in Actors}
          /\ granted \subseteq Actors
          /\ crossed \in BOOLEAN

Init == /\ row \in [status : {"candidate"}, proposed_by : Actors \cup {Nobody},
                    resolved_by : {Nobody}]
        /\ req \in [Requests -> [pc : {"new"}, decision : Decisions, actor : Actors,
                                 read : {Nobody}]]
        /\ note = {}
        /\ granted = {}
        /\ crossed = FALSE
-----------------------------------------------------------------------------
Goto(r, pc) == req' = [req EXCEPT ![r].pc = pc]

\* The checks of resolve (mutant: a proposer may approve).
MutMayResolve(r) == row.status = "candidate"
MayResolve(r) == /\ row.status = "candidate"
                 /\ ~(req[r].decision = "approved" /\ row.proposed_by = req[r].actor)

Check(r) == /\ req[r].pc = "new"
            /\ Goto(r, IF MayResolve(r) THEN "checked" ELSE "done")
            /\ granted' = IF MayResolve(r) /\ req[r].decision = "approved"
                          THEN granted \cup {req[r].actor} ELSE granted
            /\ crossed' = (crossed \/ /\ MayResolve(r)
                                      /\ \E q \in Requests \ {r} : req[q].pc = "checked")
            /\ UNCHANGED <<row, note>>

\* resolve_memory_candidate: the update, whatever the status by now.
Update(r) == /\ req[r].pc = "checked"
             /\ row' = [row EXCEPT !.status = req[r].decision, !.resolved_by = req[r].actor]
             /\ Goto(r, "updated")
             /\ UNCHANGED <<note, granted, crossed>>

Reread(r) == /\ req[r].pc = "updated"
             /\ req' = [req EXCEPT ![r].pc = IF req[r].decision = "approved" THEN "reread"
                                             ELSE "done",
                                   ![r].read = row.resolved_by]
             /\ UNCHANGED <<row, note, granted, crossed>>

\* _promote_to_vault, which may fail to write.
Promote(r) == /\ req[r].pc = "reread"
              /\ note' \in {note, {req[r].read}}
              /\ Goto(r, "done")
              /\ UNCHANGED <<row, granted, crossed>>

Next == \E r \in Requests : Check(r) \/ Update(r) \/ Reread(r) \/ Promote(r)

Spec == Init /\ [][Next]_memoryVars
-----------------------------------------------------------------------------
\* "The ONE path that promotes a candidate to real memory": a note is in the vault only
\* if somebody other than the proposer approved; and unless two resolutions passed the
\* check together, the note names that person and its candidate is not rejected.
MemoryNeedsApproval ==
    note # {} =>
        /\ granted \ {row.proposed_by} # {}
        /\ ~crossed => note \subseteq granted /\ row.status = "approved"
=============================================================================
