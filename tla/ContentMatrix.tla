----------------------------- MODULE ContentMatrix -----------------------------
(***************************************************************************)
(* The table `contenido` of pieces of content, whose dedup_key is a hash of  *)
(* channel, angle and date.  A producer asks the command line whether a key   *)
(* is taken before it drafts (office-publish), and insert_content_row checks  *)
(* again before it posts.  A check reads the table page by page, while other  *)
(* producers post, Baserow comes and goes, and people move rows along or      *)
(* remove them in Baserow itself.                                            *)
(***************************************************************************)
EXTENDS Naturals, Sequences, FiniteSets, SequencesExt

CONSTANTS Producers,    \* one piece each
          Keys,         \* dedup keys
          PageSize,     \* rows of a page
          MaxPages,     \* _MAX_PAGES
          Estados,      \* bound: the states that pieces are in
          MaxIdeas      \* bound: rows that people add themselves

ESTADO == {"idea", "brief", "producido", "draft", "aprobado", "publicado"}
Blocking == {"draft", "aprobado", "publicado"}

VARIABLES table,    \* rows of contenido, as they are listed
          ideas,    \* rows that people have added
          piece,    \* piece[p]: how far p is, with which key and state; of the check under
                    \* way, how many rows it has read, whether one is in conflict, and
                    \* whether one of them was removed since, so that rows moved up unread;
                    \* of the last check, the pieces of other producers under its key that
                    \* were in the table when it ended
          blind     \* history: keys that were inserted without a check that read the
                    \* whole table, or that people moved to a blocking state

contentVars == <<table, ideas, piece, blind>>

Owners == Producers \cup (1..MaxIdeas)
Rows == [by : Owners, key : Keys, estado : ESTADO]
Looking == {"asking", "looking"}   \* a check of check-key, one of insert_content_row

TypeOK == /\ table \in Seq(Rows)
          /\ ideas \in 0..MaxIdeas
          /\ piece \in [Producers -> [pc : {"new", "drafting", "checked", "done"} \cup Looking,
                                     key : Keys, estado : ESTADO, video : BOOLEAN,
                                     read : Nat, found : BOOLEAN, shaken : BOOLEAN,
                                     since : SUBSET Producers]]
          /\ blind \subseteq Keys

Init == /\ table = << >>
        /\ ideas = 0
        /\ piece \in [Producers -> [pc : {"new"}, key : Keys, estado : Estados,
                                    video : BOOLEAN, read : {0}, found : {FALSE},
                                    shaken : {FALSE}, since : {{}}]]
        /\ blind = {}
-----------------------------------------------------------------------------
\* find_conflicting_rows (mutant: a published piece no longer blocks).
MutConflicts(key, rows) ==
    {i \in DOMAIN rows : rows[i].key = key /\ rows[i].estado \in {"draft", "aprobado"}}
Conflicts(key, rows) ==
    {i \in DOMAIN rows : rows[i].key = key /\ rows[i].estado \in Blocking}

\* check-key.
CheckKey(p) == /\ piece[p].pc = "new"
               /\ piece' = [piece EXCEPT ![p].pc = "asking"]
               /\ UNCHANGED <<table, ideas, blind>>

\* insert_content_row up to its fetch: a published row needs its video.
Validate(p) ==
    /\ piece[p].pc \in {"new", "drafting"}
    /\ piece' = [piece EXCEPT ![p].pc =
                     IF piece[p].estado = "publicado" /\ ~piece[p].video THEN "done"
                     ELSE "looking"]
    /\ UNCHANGED <<table, ideas, blind>>

\* The producers whose piece is in the table under a key.
Present(key) == {q \in Producers : \E i \in DOMAIN table : /\ table[i].by = q
                                                         /\ table[i].key = key}

\* check_dedup and what its callers make of it: both go on unless it says "duplicate", the
\* gate of office-publish to its draft and insert_content_row to its post.
Conclude(p, duplicate, whole) ==
    LET next == IF duplicate THEN "done"
                ELSE IF piece[p].pc = "asking" THEN "drafting" ELSE "checked"
    IN  /\ piece' = [piece EXCEPT ![p] =
                [@ EXCEPT !.pc = next, !.read = 0, !.found = FALSE, !.shaken = FALSE,
                          !.since = IF next = "checked" THEN Present(piece[p].key)
                                    ELSE {}]]
        /\ blind' = IF next = "checked" /\ ~whole THEN blind \cup {piece[p].key} ELSE blind

\* fetch_rows: a page, and the next one if there is one and _MAX_PAGES lets it; a table
\* that goes on is then taken for what was read of it.
ReadPage(p) ==
    LET last == piece[p].read + PageSize
        page == SubSeq(table, piece[p].read + 1,
                       IF last <= Len(table) THEN last ELSE Len(table))
        found == piece[p].found \/ Conflicts(piece[p].key, page) # {}
        more == last < Len(table)
    IN  /\ piece[p].pc \in Looking
        /\ piece[p].read < Len(table) \/ piece[p].read = 0
        /\ IF more /\ last < MaxPages * PageSize
           THEN /\ piece' = [piece EXCEPT ![p].read = last, ![p].found = found]
                /\ UNCHANGED blind
           ELSE Conclude(p, found, ~more /\ ~piece[p].shaken)
        /\ UNCHANGED <<table, ideas>>

\* No token, no answer, or the page is no longer there: "unknown", whatever was read.
ReadFails(p) == /\ piece[p].pc \in Looking
                /\ Conclude(p, FALSE, FALSE)
                /\ UNCHANGED <<table, ideas>>

\* The post, with or without success.
Post(p) == /\ piece[p].pc = "checked"
           /\ table' \in {table, Append(table, [by |-> p, key |-> piece[p].key,
                                                estado |-> piece[p].estado])}
           /\ piece' = [piece EXCEPT ![p].pc = "done"]
           /\ UNCHANGED <<ideas, blind>>

\* People.
AddIdea(key) == /\ ideas < MaxIdeas
                /\ ideas' = ideas + 1
                /\ table' = Append(table, [by |-> ideas + 1, key |-> key, estado |-> "idea"])
                /\ UNCHANGED <<piece, blind>>

MoveOn(i, estado) ==
    /\ estado # table[i].estado
    /\ table' = [table EXCEPT ![i].estado = estado]
    /\ blind' = IF estado \in Blocking /\ table[i].estado \notin Blocking
                THEN blind \cup {table[i].key} ELSE blind
    /\ UNCHANGED <<ideas, piece>>

\* The rows after it move up, past the reach of a check that had read it.
RemoveRow(i) ==
    /\ table' = RemoveAt(table, i)
    /\ piece' = [p \in Producers |->
                     [piece[p] EXCEPT !.shaken = @ \/ i <= piece[p].read]]
    /\ UNCHANGED <<ideas, blind>>

Next == \/ \E p \in Producers : CheckKey(p) \/ Validate(p) \/ ReadPage(p) \/ ReadFails(p)
                               \/ Post(p)
        \/ \E key \in Keys : AddIdea(key)
        \/ \E i \in DOMAIN table : \/ \E estado \in Estados : MoveOn(i, estado)
                                 \/ RemoveRow(i)

Spec == Init /\ [][Next]_contentVars
-----------------------------------------------------------------------------
Committed(i) == table[i].by \in Producers /\ table[i].estado \in Blocking

\* Two committed pieces under one key have been checked before either was there: the
\* one that came later had read the table to its end when the other was not yet in it.  If
\* not, a check got no answer, stopped at the last page it may read or missed a row because
\* one that it had read was removed, or a person had moved a row along.
DuplicatesOverlap ==
    \A i, j \in {k \in DOMAIN table : Committed(k)} :
        LET a == table[i]
            b == table[j]
        IN  a.by # b.by /\ a.key = b.key /\ a.key \notin blind =>
                a.by \notin piece[b.by].since /\ b.by \notin piece[a.by].since
=============================================================================
