----------------------------- MODULE ScriptsProofs -----------------------------
(***************************************************************************)
(* What holds of the scripts that look after content, research and keys, for  *)
(* every number of producers, keys, repositories, providers and days.        *)
(***************************************************************************)
EXTENDS Services, FiniteSetTheorems, SequenceTheorems, WellFoundedInduction,
        TLAPS

-----------------------------------------------------------------------------
\* Content matrix.

\* The row in place i is in conflict with a key.
Taken(listed, key, i) == listed[i].key = key /\ listed[i].estado \in Matrix!Blocking

\* A producer writes its one row last; what was there under its key when it was let go on is
\* not committed, unless its key is blind; and a check that has found nothing, and of whose
\* rows none was removed, has before it only rows that were not committed when it read them.
ContentInv ==
    /\ Matrix!TypeOK
    /\ \A i \in 1..Len(matrixTable) : matrixTable[i].by \in Producers =>
           /\ piece[matrixTable[i].by].pc = "done"
           /\ matrixTable[i].key = piece[matrixTable[i].by].key
    /\ \A p \in Producers : \A q \in piece[p].since : piece[q].pc = "done"
    /\ \A p \in Producers : piece[p].key \notin blind =>
           \A i \in 1..Len(matrixTable) :
               matrixTable[i].by \in piece[p].since => ~Taken(matrixTable, piece[p].key, i)
    /\ \A p \in Producers : ~piece[p].shaken =>
           /\ piece[p].read <= Len(matrixTable)
           /\ ~piece[p].found /\ piece[p].key \notin blind =>
                  \A i \in 1..piece[p].read : ~Taken(matrixTable, piece[p].key, i)

Pieces == [pc : {"new", "drafting", "checked", "done"} \cup Matrix!Looking, key : DedupKeys,
           estado : Matrix!ESTADO, video : BOOLEAN, read : Nat, found : BOOLEAN,
           shaken : BOOLEAN, since : SUBSET Producers]

\* A piece whose progress changes is still a piece.
LEMMA PieceReads ==
    ASSUME NEW r \in Pieces, NEW n \in Nat, NEW b \in BOOLEAN, NEW new,
           new = [r EXCEPT !.read = n, !.found = b]
    PROVE  /\ new \in Pieces /\ new.key = r.key /\ new.pc = r.pc /\ new.read = n
           /\ new.found = b /\ new.shaken = r.shaken /\ new.since = r.since
BY DEF Pieces

LEMMA PieceShaken ==
    ASSUME NEW r \in Pieces, NEW c \in BOOLEAN, NEW new, new = [r EXCEPT !.shaken = c]
    PROVE  /\ new \in Pieces /\ new.key = r.key /\ new.pc = r.pc /\ new.read = r.read
           /\ new.found = r.found /\ new.shaken = c /\ new.since = r.since
BY DEF Pieces

\* The rows of a page are those of the table from a place on.
LEMMA PageOfTable ==
    ASSUME NEW S, NEW s \in Seq(S), NEW m \in Nat, NEW n \in 0..Len(s), NEW i \in 1..n, m < i
    PROVE  LET page == SubSeq(s, m + 1, n)
           IN  i - m \in DOMAIN page /\ page[i - m] = s[i]
<1>1. Len(s) \in Nat /\ m + 1 \in 1..(Len(s) + 1) /\ n \in m..Len(s) /\ n - m \in Nat
  OBVIOUS
<1>2. i - m \in 1..(n - m) /\ (m + 1) + (i - m) - 1 = i /\ n - (m + 1) + 1 = n - m
      /\ m + 1 <= n
  BY <1>1
<1>3. /\ SubSeq(s, m + 1, n) \in Seq(S) /\ Len(SubSeq(s, m + 1, n)) = n - (m + 1) + 1
      /\ \A j \in 1..(n - (m + 1) + 1) : SubSeq(s, m + 1, n)[j] = s[(m + 1) + j - 1]
  BY <1>1, <1>2, SubSeqProperties
<1> QED
  BY <1>2, <1>3

LEMMA ContentInitially == Matrix!Init => ContentInv
<1> SUFFICES ASSUME Matrix!Init PROVE ContentInv
  OBVIOUS
<1>1. ideas \in 0..MaxIdeas /\ Estados \subseteq Matrix!ESTADO
  BY ServicesAssumption DEF Matrix!Init
<1>2. piece \in [Producers -> [pc : {"new"}, key : DedupKeys, estado : Estados,
                               video : BOOLEAN, read : {0}, found : {FALSE},
                               shaken : {FALSE}, since : {{}}]]
  BY DEF Matrix!Init
<1>3. piece \in [Producers -> Pieces]
  <2>1. ASSUME NEW p \in Producers PROVE piece[p] \in Pieces
    <3>1. piece[p] \in [pc : {"new"}, key : DedupKeys, estado : Estados, video : BOOLEAN,
                         read : {0}, found : {FALSE}, shaken : {FALSE}, since : {{}}]
      BY <1>2
    <3>2. /\ {"new"} \subseteq {"new", "drafting", "checked", "done"} \cup Matrix!Looking
          /\ {0} \subseteq Nat /\ {FALSE} \subseteq BOOLEAN
      OBVIOUS
    <3>3. {{}} \subseteq SUBSET Producers
      OBVIOUS
    <3> QED
      BY <1>1, <3>1, <3>2, <3>3, Zenon DEF Pieces
  <2> QED
    BY <1>2, <2>1
<1>4. matrixTable = << >> /\ blind = {} /\ Len(<< >>) = 0 /\ matrixTable \in Seq(Matrix!Rows)
  BY DEF Matrix!Init
<1>5. \A p \in Producers : piece[p].since = {} /\ piece[p].read = 0
  BY <1>2
<1> QED
  BY <1>1, <1>3, <1>4, <1>5 DEF ContentInv, Matrix!TypeOK, Pieces

\* A sequence without its i-th element.
LEMMA RemovalShifts ==
    ASSUME NEW S, NEW s \in Seq(S), NEW i \in 1..Len(s)
    PROVE  /\ Matrix!RemoveAt(s, i) \in Seq(S)
           /\ Len(Matrix!RemoveAt(s, i)) = Len(s) - 1
           /\ \A j \in 1..(Len(s) - 1) :
                  Matrix!RemoveAt(s, i)[j] = IF j < i THEN s[j] ELSE s[j + 1]
<1> DEFINE a == SubSeq(s, 1, i - 1)
           b == SubSeq(s, i + 1, Len(s))
<1>1. /\ a \in Seq(S) /\ Len(a) = i - 1
      /\ \A j \in 1..(i - 1) : a[j] = s[j]
  OBVIOUS
<1>2. /\ b \in Seq(S) /\ Len(b) = Len(s) - i
      /\ \A j \in 1..(Len(s) - i) : b[j] = s[j + i]
  OBVIOUS
<1>3. Matrix!RemoveAt(s, i) = a \o b
  BY DEF Matrix!RemoveAt
<1> HIDE DEF a, b
<1>4. /\ a \o b \in Seq(S) /\ Len(a \o b) = Len(s) - 1
      /\ \A j \in 1..(Len(s) - 1) : (a \o b)[j] = IF j < i THEN a[j] ELSE b[j - (i - 1)]
  <2>1. /\ a \o b \in Seq(S) /\ Len(a \o b) = Len(a) + Len(b)
        /\ \A j \in 1..(Len(a) + Len(b)) :
               (a \o b)[j] = IF j <= Len(a) THEN a[j] ELSE b[j - Len(a)]
    BY <1>1, <1>2, ConcatProperties
  <2>2. i \in Nat /\ Len(s) \in Nat
    OBVIOUS
  <2> QED
    BY <1>1, <1>2, <2>1, <2>2
<1>5. \A j \in 1..(Len(s) - 1) : (a \o b)[j] = IF j < i THEN s[j] ELSE s[j + 1]
  <2>0. i \in Nat /\ i >= 1 /\ i <= Len(s) /\ Len(s) \in Nat
    OBVIOUS
  <2>1. ASSUME NEW j \in 1..(Len(s) - 1), j < i PROVE (a \o b)[j] = s[j]
    <3>1. j \in 1..(i - 1)
      BY <2>0, <2>1
    <3> QED
      BY <1>1, <1>4, <2>1, <3>1
  <2>2. ASSUME NEW j \in 1..(Len(s) - 1), ~(j < i) PROVE (a \o b)[j] = s[j + 1]
    <3>1. j - (i - 1) \in 1..(Len(s) - i) /\ (j - (i - 1)) + i = j + 1
      BY <2>0, <2>2
    <3>2. PICK k \in 1..(Len(s) - i) : k = j - (i - 1)
      BY <3>1
    <3>3. b[k] = s[k + i] /\ k + i = j + 1
      BY <1>2, <3>1, <3>2
    <3> QED
      BY <1>4, <2>2, <3>2, <3>3
  <2> QED
    BY <2>1, <2>2
<1> QED
  BY <1>3, <1>4, <1>5

\* The end of a check: if it went over the whole table, it has found whatever is committed.
LEMMA CheckEnds ==
    ASSUME ContentInv, NEW p \in Producers, piece[p].pc \in Matrix!Looking,
           NEW duplicate \in BOOLEAN, NEW whole \in BOOLEAN,
           Matrix!Conclude(p, duplicate, whole), UNCHANGED <<matrixTable, ideas>>,
           whole /\ ~duplicate /\ piece[p].key \notin blind =>
               \A i \in 1..Len(matrixTable) : ~Taken(matrixTable, piece[p].key, i)
    PROVE  ContentInv'
<1> DEFINE key == piece[p].key
           next == IF duplicate THEN "done"
                   ELSE IF piece[p].pc = "asking" THEN "drafting" ELSE "checked"
           new == [piece[p] EXCEPT !.pc = next, !.read = 0, !.found = FALSE,
                       !.shaken = FALSE,
                       !.since = IF next = "checked" THEN Matrix!Present(key) ELSE {}]
<1>0. /\ Matrix!TypeOK /\ piece \in [Producers -> Pieces] /\ piece[p] \in Pieces
      /\ matrixTable \in Seq(Matrix!Rows)
  BY DEF ContentInv, Matrix!TypeOK, Pieces
<1>1. /\ piece' = [piece EXCEPT ![p] = new]
      /\ blind' = IF next = "checked" /\ ~whole THEN blind \cup {key} ELSE blind
      /\ UNCHANGED <<matrixTable, ideas>>
  BY DEF Matrix!Conclude
<1>2. /\ Matrix!Present(key) \subseteq Producers
      /\ \A q \in Matrix!Present(key) : piece[q].pc = "done" /\ q # p
  <2>1. DOMAIN matrixTable = 1..Len(matrixTable)
    BY <1>0
  <2>2. "done" \notin Matrix!Looking
    BY DEF Matrix!Looking
  <2> QED
    BY <2>1, <2>2 DEF Matrix!Present, ContentInv
<1>3. /\ new \in Pieces /\ new.key = key /\ new.pc = next /\ new.read = 0 /\ ~new.shaken
      /\ new.since = IF next = "checked" THEN Matrix!Present(key) ELSE {}
  <2>1. next \in {"new", "drafting", "checked", "done"} \cup Matrix!Looking
    OBVIOUS
  <2> HIDE DEF next, key
  <2>2. PICK S \in SUBSET Producers :
            S = IF next = "checked" THEN Matrix!Present(key) ELSE {}
    BY <1>2
  <2>3. new = [piece[p] EXCEPT !.pc = next, !.read = 0, !.found = FALSE, !.shaken = FALSE,
                               !.since = S]
    BY <2>2
  <2> HIDE DEF new
  <2>4. new \in Pieces /\ new.key = piece[p].key /\ new.pc = next /\ new.read = 0
        /\ ~new.shaken /\ new.since = S
    <3>1. PICK r \in Pieces : r = piece[p]
      BY <1>0
    <3>2. PICK pc \in {"new", "drafting", "checked", "done"} \cup Matrix!Looking : pc = next
      BY <2>1
    <3>3. new = [r EXCEPT !.pc = pc, !.read = 0, !.found = FALSE, !.shaken = FALSE,
                          !.since = S]
      BY <2>3, <3>1, <3>2
    <3>4. /\ new \in Pieces /\ new.key = r.key /\ new.pc = pc /\ new.read = 0
          /\ ~new.shaken /\ new.since = S
      <4>1. r = [pc |-> r.pc, key |-> r.key, estado |-> r.estado, video |-> r.video,
                 read |-> r.read, found |-> r.found, shaken |-> r.shaken,
                 since |-> r.since]
        BY DEF Pieces
      <4>2. r.key \in DedupKeys /\ r.estado \in Matrix!ESTADO /\ r.video \in BOOLEAN
        BY DEF Pieces
      <4>3. new = [pc |-> pc, key |-> r.key, estado |-> r.estado, video |-> r.video,
                   read |-> 0, found |-> FALSE, shaken |-> FALSE, since |-> S]
        BY <3>3, <4>1
      <4>4. 0 \in Nat /\ FALSE \in BOOLEAN
        OBVIOUS
      <4>5. new \in Pieces
        BY <4>2, <4>3, <4>4 DEF Pieces
      <4> QED
        BY <4>3, <4>5
    <3> QED
      BY <3>1, <3>2, <3>4
  <2> QED
    BY <2>2, <2>4 DEF key
<1>4. /\ piece' \in [Producers -> Pieces]
      /\ \A q \in Producers : piece'[q] = IF q = p THEN new ELSE piece[q]
  BY <1>0, <1>1, <1>3
<1>5. blind \subseteq blind' /\ blind' \subseteq DedupKeys
  <2>1. blind \subseteq DedupKeys /\ key \in DedupKeys
    BY <1>0 DEF Matrix!TypeOK, Pieces
  <2> QED
    BY <1>1, <2>1
<1>6. next = "checked" /\ key \notin blind' =>
          \A i \in 1..Len(matrixTable) : ~Taken(matrixTable, key, i)
  BY <1>1
<1> HIDE DEF new, next, key
<1>7. Matrix!TypeOK'
  BY <1>0, <1>1, <1>4, <1>5 DEF Matrix!TypeOK, Pieces
<1>8. Len(matrixTable) \in Nat
  BY <1>0
<1>9. \A q \in Producers : piece[q].pc = "done" => q # p
  BY DEF Matrix!Looking
<1>10. \A i \in 1..Len(matrixTable) : matrixTable[i].by \in Producers =>
           /\ piece'[matrixTable[i].by].pc = "done"
           /\ matrixTable[i].key = piece'[matrixTable[i].by].key
  BY <1>4, <1>9 DEF ContentInv
<1>11. \A q \in Producers : \A x \in piece'[q].since : piece'[x].pc = "done"
  <2>1. \A q \in Producers : piece[q].since \subseteq Producers
    BY <1>0 DEF Pieces
  <2> QED
    BY <1>2, <1>3, <1>4, <1>9, <2>1 DEF ContentInv
<1>12. \A q \in Producers : piece'[q].key \notin blind' =>
           \A i \in 1..Len(matrixTable) :
               matrixTable[i].by \in piece'[q].since => ~Taken(matrixTable, piece'[q].key, i)
  <2>1. CASE next = "checked"
    BY <1>3, <1>4, <1>5, <1>6, <2>1 DEF ContentInv
  <2>2. CASE next # "checked"
    BY <1>3, <1>4, <1>5, <2>2 DEF ContentInv
  <2> QED
    BY <2>1, <2>2
<1>13. \A q \in Producers : ~piece'[q].shaken =>
           /\ piece'[q].read <= Len(matrixTable)
           /\ ~piece'[q].found /\ piece'[q].key \notin blind' =>
                  \A i \in 1..piece'[q].read : ~Taken(matrixTable, piece'[q].key, i)
  BY <1>3, <1>4, <1>5, <1>8 DEF ContentInv
<1> QED
  BY <1>1, <1>7, <1>10, <1>11, <1>12, <1>13 DEF ContentInv, Taken

LEMMA ContentStep == ContentInv /\ [Matrix!Next]_contentVars => ContentInv'
<1> SUFFICES ASSUME ContentInv, [Matrix!Next]_contentVars PROVE ContentInv'
  OBVIOUS
<1>0. /\ Matrix!TypeOK /\ piece \in [Producers -> Pieces] /\ Len(matrixTable) \in Nat
      /\ matrixTable \in Seq(Matrix!Rows) /\ DOMAIN matrixTable = 1..Len(matrixTable)
      /\ \A p \in Producers : piece[p].read \in Nat /\ piece[p].key \in DedupKeys
      /\ MaxIdeas \in Nat /\ Producers \cap Nat = {}
  BY ServicesAssumption DEF ContentInv, Matrix!TypeOK, Pieces
\* A step that changes how far a producer is, and nothing that the invariant is about.
<1>00. ASSUME NEW p \in Producers, piece[p].pc # "done",
              NEW pc \in {"new", "drafting", "checked", "done"} \cup Matrix!Looking,
              piece' = [piece EXCEPT ![p].pc = pc], UNCHANGED <<matrixTable, ideas, blind>>
       PROVE  ContentInv'
  <2>1. Matrix!TypeOK'
    BY <1>0, <1>00 DEF Matrix!TypeOK, Pieces
  <2>2. /\ \A q \in Producers : /\ piece'[q].key = piece[q].key
                                /\ piece'[q].since = piece[q].since
                                /\ piece'[q].read = piece[q].read
                                /\ piece'[q].found = piece[q].found
                                /\ piece'[q].shaken = piece[q].shaken
                                /\ piece[q].pc = "done" => piece'[q].pc = "done"
                                /\ piece[q].since \subseteq Producers
    BY <1>0, <1>00 DEF Pieces
  <2> QED
    BY <1>00, <2>1, <2>2 DEF ContentInv, Taken
<1>1. ASSUME NEW p \in Producers, Matrix!CheckKey(p) PROVE ContentInv'
  <2>1. "asking" \in Matrix!Looking
    BY DEF Matrix!Looking
  <2> QED
    BY <1>00, <1>1, <2>1 DEF Matrix!CheckKey
<1>2. ASSUME NEW p \in Producers, Matrix!Validate(p) PROVE ContentInv'
  <2>1. PICK pc \in {"done", "looking"} : piece' = [piece EXCEPT ![p].pc = pc]
    BY <1>2 DEF Matrix!Validate
  <2>2. /\ pc \in {"new", "drafting", "checked", "done"} \cup Matrix!Looking
        /\ piece[p].pc # "done" /\ UNCHANGED <<matrixTable, ideas, blind>>
    BY <1>2 DEF Matrix!Validate, Matrix!Looking
  <2> QED
    BY <1>00, <2>1, <2>2
<1>3. ASSUME NEW p \in Producers, Matrix!ReadFails(p) PROVE ContentInv'
  BY <1>3, CheckEnds DEF Matrix!ReadFails
<1>4. ASSUME NEW p \in Producers, Matrix!ReadPage(p) PROVE ContentInv'
  <2> DEFINE from == piece[p].read
             upto == from + PageSize
             end == IF upto <= Len(matrixTable) THEN upto ELSE Len(matrixTable)
             page == SubSeq(matrixTable, from + 1, end)
             conflict == piece[p].found \/ Matrix!Conflicts(piece[p].key, page) # {}
             more == upto < Len(matrixTable)
  <2>1. /\ piece[p].pc \in Matrix!Looking /\ UNCHANGED <<matrixTable, ideas>>
        /\ from < Len(matrixTable) \/ from = 0
        /\ IF more /\ upto < MaxPages * PageSize
           THEN /\ piece' = [piece EXCEPT ![p].read = upto, ![p].found = conflict]
                /\ UNCHANGED blind
           ELSE Matrix!Conclude(p, conflict, ~more /\ ~piece[p].shaken)
    BY <1>4 DEF Matrix!ReadPage
  <2>2. /\ PageSize \in Nat \ {0} /\ from \in Nat /\ upto \in Nat /\ end \in Nat
        /\ conflict \in BOOLEAN /\ end <= Len(matrixTable)
    BY <1>0, ServicesAssumption DEF Pieces
  <2>3. ASSUME ~piece[p].shaken, ~conflict, piece[p].key \notin blind
        PROVE  \A i \in 1..end : ~Taken(matrixTable, piece[p].key, i)
    <3>1. \A i \in 1..from : ~Taken(matrixTable, piece[p].key, i)
      BY <2>3 DEF ContentInv
    <3>2. ASSUME NEW i \in 1..end, i > from PROVE ~Taken(matrixTable, piece[p].key, i)
      <4>1. i - from \in DOMAIN page /\ page[i - from] = matrixTable[i]
        <5>1. from \in Nat /\ end \in 0..Len(matrixTable)
          BY <1>0, <2>2
        <5> HIDE DEF from, end
        <5> QED
          BY <1>0, <3>2, <5>1, PageOfTable
      <4> HIDE DEF page
      <4> QED
        BY <2>3, <4>1 DEF Matrix!Conflicts, Taken
    <3> QED
      BY <2>2, <3>1, <3>2
  <2>6. /\ ~more => end = Len(matrixTable)
        /\ more => end = upto
        /\ from <= end \/ from = 0
    <3>1. \A l, u \in Nat : /\ ~(u < l) => (IF u <= l THEN u ELSE l) = l
                            /\ u < l => (IF u <= l THEN u ELSE l) = u
      OBVIOUS
    <3> QED
      BY <1>0, <2>1, <2>2, <3>1
  <2> HIDE DEF from, upto, end, more
  <2>7. PICK b \in BOOLEAN : b = conflict
    BY <2>2
  <2> HIDE DEF conflict
  <2>4. CASE more /\ upto < MaxPages * PageSize
    <3>1. /\ piece' = [piece EXCEPT ![p].read = upto, ![p].found = b]
          /\ UNCHANGED <<matrixTable, ideas, blind>> /\ end = upto
      BY <2>1, <2>4, <2>6, <2>7
    <3>0. piece' \in [Producers -> Pieces]
      BY <1>0, <2>2, <3>1, PieceReads
    <3>2. Matrix!TypeOK'
      BY <1>0, <3>0, <3>1 DEF Matrix!TypeOK, Pieces
    <3>3. /\ \A q \in Producers : /\ piece'[q].key = piece[q].key
                                  /\ piece'[q].since = piece[q].since
                                  /\ piece'[q].pc = piece[q].pc
                                  /\ piece'[q].shaken = piece[q].shaken
                                  /\ piece[q].since \subseteq Producers
                                  /\ q # p => /\ piece'[q].read = piece[q].read
                                              /\ piece'[q].found = piece[q].found
          /\ piece'[p].read = upto /\ piece'[p].found = b
      <4>1. \A q \in Producers : piece[q].since \subseteq Producers
        BY <1>0 DEF Pieces
      <4>2. \A q \in Producers : q # p => piece'[q] = piece[q]
        BY <1>0, <3>1
      <4>3. piece'[p] = [piece[p] EXCEPT !.read = upto, !.found = b]
        BY <1>0, <3>1
      <4>4. piece[p] \in Pieces /\ upto \in Nat
        BY <1>0, <2>2
      <4>5. /\ piece'[p].key = piece[p].key /\ piece'[p].pc = piece[p].pc
            /\ piece'[p].read = upto /\ piece'[p].found = b
            /\ piece'[p].shaken = piece[p].shaken /\ piece'[p].since = piece[p].since
        <5>1. PICK r \in Pieces : r = piece[p]
          BY <4>4
        <5>2. PICK n \in Nat : n = upto
          BY <4>4
        <5>3. PICK read_p : read_p = piece'[p]
          OBVIOUS
        <5>4. read_p = [r EXCEPT !.read = n, !.found = b]
          BY <4>3, <5>1, <5>2, <5>3
        <5>5. /\ read_p.key = r.key /\ read_p.pc = r.pc /\ read_p.read = n
              /\ read_p.found = b /\ read_p.shaken = r.shaken /\ read_p.since = r.since
          BY <5>4 DEF Pieces
        <5> QED
          BY <5>1, <5>2, <5>3, <5>5
      <4> QED
        BY <4>1, <4>2, <4>5
    <3>4. \A q \in Producers : ~piece'[q].shaken =>
              /\ piece'[q].read <= Len(matrixTable)
              /\ ~piece'[q].found /\ piece'[q].key \notin blind =>
                     \A i \in 1..piece'[q].read : ~Taken(matrixTable, piece'[q].key, i)
      <4>1. upto <= Len(matrixTable)
        BY <2>2, <3>1
      <4> QED
        BY <2>3, <2>7, <3>1, <3>3, <4>1 DEF ContentInv
    <3> QED
      <4>1. /\ \A i \in 1..Len(matrixTable) : matrixTable[i].by \in Producers =>
                   /\ piece'[matrixTable[i].by].pc = "done"
                   /\ matrixTable[i].key = piece'[matrixTable[i].by].key
            /\ \A q \in Producers : \A x \in piece'[q].since : piece'[x].pc = "done"
            /\ \A q \in Producers : piece'[q].key \notin blind =>
                   \A i \in 1..Len(matrixTable) : matrixTable[i].by \in piece'[q].since =>
                       ~Taken(matrixTable, piece'[q].key, i)
        BY <3>3 DEF ContentInv
      <4> QED
        BY <3>1, <3>2, <3>4, <4>1 DEF ContentInv, Taken
  <2>5. CASE ~(more /\ upto < MaxPages * PageSize)
    <3>1. Matrix!Conclude(p, conflict, ~more /\ ~piece[p].shaken)
      BY <2>1, <2>5
    <3>3. ~more /\ ~piece[p].shaken /\ ~conflict /\ piece[p].key \notin blind =>
              \A i \in 1..Len(matrixTable) : ~Taken(matrixTable, piece[p].key, i)
      BY <2>3, <2>6
    <3>4. (~more /\ ~piece[p].shaken) \in BOOLEAN
      OBVIOUS
    <3> QED
      BY <2>1, <2>2, <3>1, <3>3, <3>4, CheckEnds
  <2> QED
    BY <2>4, <2>5
<1>5. ASSUME NEW p \in Producers, Matrix!Post(p) PROVE ContentInv'
  <2> DEFINE new == [by |-> p, key |-> piece[p].key, estado |-> piece[p].estado]
  <2>1. /\ piece[p].pc = "checked" /\ piece' = [piece EXCEPT ![p].pc = "done"]
        /\ matrixTable' \in {matrixTable, Append(matrixTable, new)}
        /\ UNCHANGED <<ideas, blind>>
    BY <1>5 DEF Matrix!Post
  <2>2. CASE matrixTable' = matrixTable
    BY <1>00, <2>1, <2>2
  <2>3. CASE matrixTable' = Append(matrixTable, new)
    <3>1. new \in Matrix!Rows /\ new.by = p /\ new.key = piece[p].key
      BY <1>0 DEF Matrix!Rows, Matrix!Owners, Pieces
    <3> HIDE DEF new
    <3>2. /\ matrixTable' \in Seq(Matrix!Rows) /\ Len(matrixTable') = Len(matrixTable) + 1
          /\ \A i \in 1..Len(matrixTable) : matrixTable'[i] = matrixTable[i]
          /\ matrixTable'[Len(matrixTable) + 1] = new
      BY <1>0, <2>3, <3>1
    <3>3. /\ \A q \in Producers : /\ piece'[q].key = piece[q].key
                                  /\ piece'[q].since = piece[q].since
                                  /\ piece'[q].read = piece[q].read
                                  /\ piece'[q].found = piece[q].found
                                  /\ piece'[q].shaken = piece[q].shaken
                                  /\ piece[q].pc = "done" => piece'[q].pc = "done"
                                  /\ piece[q].since \subseteq Producers
          /\ piece'[p].pc = "done" /\ piece' \in [Producers -> Pieces]
      BY <1>0, <2>1 DEF Pieces
    <3>4. Matrix!TypeOK'
      BY <1>0, <2>1, <3>2, <3>3 DEF Matrix!TypeOK, Pieces
    <3>5. \A i \in 1..Len(matrixTable') : i \in 1..Len(matrixTable) \/ matrixTable'[i] = new
      BY <1>0, <3>2
    <3>6. \A q \in Producers : p \notin piece[q].since
      BY <2>1 DEF ContentInv
    <3>7. \A q \in Producers : \A i \in 1..piece[q].read :
              piece[q].read <= Len(matrixTable) => i \in 1..Len(matrixTable)
      BY <1>0
    <3>8. \A i \in 1..Len(matrixTable') : matrixTable'[i].by \in Producers =>
              /\ piece'[matrixTable'[i].by].pc = "done"
              /\ matrixTable'[i].key = piece'[matrixTable'[i].by].key
      BY <3>1, <3>2, <3>3, <3>5 DEF ContentInv
    <3>9. \A q \in Producers : piece'[q].key \notin blind' =>
              \A i \in 1..Len(matrixTable') :
                  matrixTable'[i].by \in piece'[q].since =>
                      ~Taken(matrixTable', piece'[q].key, i)
      BY <2>1, <3>1, <3>2, <3>3, <3>5, <3>6 DEF ContentInv, Taken
    <3>10. \A q \in Producers : ~piece'[q].shaken =>
               /\ piece'[q].read <= Len(matrixTable')
               /\ ~piece'[q].found /\ piece'[q].key \notin blind' =>
                      \A i \in 1..piece'[q].read : ~Taken(matrixTable', piece'[q].key, i)
      BY <1>0, <2>1, <3>2, <3>3, <3>7 DEF ContentInv, Taken
    <3>11. \A q \in Producers : \A x \in piece'[q].since : piece'[x].pc = "done"
      BY <3>3 DEF ContentInv
    <3> QED
      BY <3>4, <3>8, <3>9, <3>10, <3>11 DEF ContentInv, Taken
  <2> QED
    BY <2>1, <2>2, <2>3
<1>6. ASSUME NEW key \in DedupKeys, Matrix!AddIdea(key) PROVE ContentInv'
  <2> DEFINE new == [by |-> ideas + 1, key |-> key, estado |-> "idea"]
  <2>1. /\ ideas < MaxIdeas /\ ideas' = ideas + 1
        /\ matrixTable' = Append(matrixTable, new) /\ UNCHANGED <<piece, blind>>
    BY <1>6 DEF Matrix!AddIdea
  <2>2. ideas \in 0..MaxIdeas
    BY <1>0 DEF Matrix!TypeOK
  <2>3. ideas' \in 0..MaxIdeas /\ ideas + 1 \in 1..MaxIdeas /\ ideas + 1 \in Nat
    BY <1>0, <2>1, <2>2
  <2>4. /\ new \in Matrix!Rows /\ new.by \notin Producers
        /\ new.estado \notin Matrix!Blocking
    BY <1>0, <2>3 DEF Matrix!Rows, Matrix!Owners, Matrix!ESTADO, Matrix!Blocking
  <2> HIDE DEF new
  <2>5. /\ matrixTable' \in Seq(Matrix!Rows) /\ Len(matrixTable') = Len(matrixTable) + 1
        /\ \A i \in 1..Len(matrixTable) : matrixTable'[i] = matrixTable[i]
        /\ \A i \in 1..Len(matrixTable') : i \in 1..Len(matrixTable) \/ matrixTable'[i] = new
    BY <1>0, <2>1, <2>4
  <2>6. Matrix!TypeOK'
    BY <1>0, <2>1, <2>3, <2>5 DEF Matrix!TypeOK
  <2>7. \A q \in Producers : \A i \in 1..piece[q].read :
            piece[q].read <= Len(matrixTable) => i \in 1..Len(matrixTable)
    BY <1>0
  <2>8. \A i \in 1..Len(matrixTable') : matrixTable'[i].by \in Producers =>
            /\ piece'[matrixTable'[i].by].pc = "done"
            /\ matrixTable'[i].key = piece'[matrixTable'[i].by].key
    BY <2>1, <2>4, <2>5 DEF ContentInv
  <2>9. \A q \in Producers : piece'[q].key \notin blind' =>
            \A i \in 1..Len(matrixTable') :
                matrixTable'[i].by \in piece'[q].since => ~Taken(matrixTable', piece'[q].key, i)
    BY <2>1, <2>4, <2>5 DEF ContentInv, Taken
  <2>10. \A q \in Producers : ~piece'[q].shaken =>
             /\ piece'[q].read <= Len(matrixTable')
             /\ ~piece'[q].found /\ piece'[q].key \notin blind' =>
                    \A i \in 1..piece'[q].read : ~Taken(matrixTable', piece'[q].key, i)
    BY <1>0, <2>1, <2>5, <2>7 DEF ContentInv, Taken
  <2> QED
    BY <2>1, <2>6, <2>8, <2>9, <2>10 DEF ContentInv, Taken
<1>7. ASSUME NEW i \in DOMAIN matrixTable, NEW estado \in Estados, Matrix!MoveOn(i, estado)
      PROVE  ContentInv'
  <2> DEFINE old == matrixTable[i]
             new == [old EXCEPT !.estado = estado]
  <2>1. /\ matrixTable' = [matrixTable EXCEPT ![i].estado = estado]
        /\ UNCHANGED <<ideas, piece>>
        /\ blind' = IF estado \in Matrix!Blocking /\ old.estado \notin Matrix!Blocking
                    THEN blind \cup {old.key} ELSE blind
    BY <1>7 DEF Matrix!MoveOn
  <2>2. old \in Matrix!Rows /\ estado \in Matrix!ESTADO
    BY <1>0, <1>7, ServicesAssumption
  <2>3. new \in Matrix!Rows /\ new.by = old.by /\ new.key = old.key /\ new.estado = estado
    BY <2>2 DEF Matrix!Rows
  <2>4. matrixTable' = [matrixTable EXCEPT ![i] = new]
    BY <2>1
  <2> HIDE DEF new
  <2>5. /\ matrixTable' \in Seq(Matrix!Rows) /\ Len(matrixTable') = Len(matrixTable)
        /\ \A j \in 1..Len(matrixTable) : matrixTable'[j] = IF j = i THEN new
                                                            ELSE matrixTable[j]
    BY <1>0, <1>7, <2>3, <2>4
  <2>6. blind \subseteq blind' /\ blind' \subseteq DedupKeys
    BY <1>0, <2>1, <2>2 DEF Matrix!TypeOK, Matrix!Rows
  <2>7. Matrix!TypeOK'
    BY <1>0, <2>1, <2>5, <2>6 DEF Matrix!TypeOK
  <2>8. \A k : \A j \in 1..Len(matrixTable) :
            /\ matrixTable'[j].by = matrixTable[j].by
            /\ matrixTable'[j].key = matrixTable[j].key
            /\ k \notin blind' /\ ~Taken(matrixTable, k, j) => ~Taken(matrixTable', k, j)
    BY <2>1, <2>3, <2>5 DEF Taken
  <2>9. \A q \in Producers : \A j \in 1..piece[q].read :
            piece[q].read <= Len(matrixTable) => j \in 1..Len(matrixTable)
    BY <1>0
  <2>10. \A q \in Producers : ~piece[q].shaken =>
             /\ piece[q].read <= Len(matrixTable)
             /\ ~piece[q].found /\ piece[q].key \notin blind' =>
                    \A j \in 1..piece[q].read :
                        ~Taken(matrixTable', piece[q].key, j)
    BY <1>0, <2>6, <2>8, <2>9 DEF ContentInv
  <2>11. \A q \in Producers : piece[q].key \notin blind' =>
             \A j \in 1..Len(matrixTable) : matrixTable[j].by \in piece[q].since =>
                 ~Taken(matrixTable', piece[q].key, j)
    BY <2>6, <2>8 DEF ContentInv
  <2> QED
    BY <2>1, <2>5, <2>7, <2>8, <2>10, <2>11 DEF ContentInv, Taken
<1>8. ASSUME NEW i \in DOMAIN matrixTable, Matrix!RemoveRow(i) PROVE ContentInv'
  <2>1. /\ matrixTable' = Matrix!RemoveAt(matrixTable, i) /\ UNCHANGED <<ideas, blind>>
        /\ piece' = [p \in Producers |->
                        [piece[p] EXCEPT !.shaken = @ \/ i <= piece[p].read]]
    BY <1>8 DEF Matrix!RemoveRow
  <2>2. i \in 1..Len(matrixTable)
    BY <1>0, <1>8
  <2>3. /\ matrixTable' \in Seq(Matrix!Rows) /\ Len(matrixTable') = Len(matrixTable) - 1
        /\ \A j \in 1..(Len(matrixTable) - 1) :
               matrixTable'[j] = IF j < i THEN matrixTable[j] ELSE matrixTable[j + 1]
    BY <1>0, <2>1, <2>2, RemovalShifts
  <2>4. /\ \A q \in Producers : /\ piece'[q].key = piece[q].key
                                /\ piece'[q].since = piece[q].since
                                /\ piece'[q].read = piece[q].read
                                /\ piece'[q].found = piece[q].found
                                /\ ~piece'[q].shaken =>
                                       ~piece[q].shaken /\ ~(i <= piece[q].read)
                                /\ piece'[q].pc = piece[q].pc
                                /\ piece[q].since \subseteq Producers
        /\ piece' \in [Producers -> Pieces]
    <3>1. ASSUME NEW q \in Producers
          PROVE  /\ piece'[q].key = piece[q].key /\ piece'[q].since = piece[q].since
                 /\ piece'[q].read = piece[q].read /\ piece'[q].found = piece[q].found
                 /\ ~piece'[q].shaken => ~piece[q].shaken /\ ~(i <= piece[q].read)
                 /\ piece'[q].pc = piece[q].pc /\ piece'[q] \in Pieces
                 /\ piece[q].since \subseteq Producers
      <4>1. PICK c \in BOOLEAN : c = (piece[q].shaken \/ i <= piece[q].read)
        OBVIOUS
      <4>2. piece'[q] = [piece[q] EXCEPT !.shaken = c]
        BY <2>1, <4>1
      <4>3. piece[q] \in Pieces
        BY <1>0
      <4>4. piece[q].since \subseteq Producers
        BY <4>3 DEF Pieces
      <4> QED
        BY <4>1, <4>2, <4>3, <4>4, PieceShaken
    <3> QED
      BY <2>1, <3>1
  <2>5. Matrix!TypeOK'
    BY <1>0, <2>1, <2>3, <2>4 DEF Matrix!TypeOK, Pieces
  <2>6. \A j \in 1..Len(matrixTable') :
            \E k \in 1..Len(matrixTable) : matrixTable'[j] = matrixTable[k]
    <3>1. \A j \in 1..(Len(matrixTable) - 1) : /\ j \in 1..Len(matrixTable)
                                               /\ j + 1 \in 1..Len(matrixTable)
      BY <1>0
    <3> QED
      BY <2>3, <3>1
  <2>7. \A q \in Producers : ~piece'[q].shaken =>
            /\ ~piece[q].shaken /\ piece[q].read < i
            /\ piece[q].read <= Len(matrixTable')
            /\ \A j \in 1..piece[q].read : matrixTable'[j] = matrixTable[j]
    <3>1. ASSUME NEW q \in Producers, ~piece'[q].shaken
          PROVE  ~piece[q].shaken /\ piece[q].read < i /\ piece[q].read \in Nat
      BY <1>0, <2>2, <2>4, <3>1
    <3>2. \A n \in Nat : n < i => /\ n <= Len(matrixTable) - 1
                                 /\ \A j \in 1..n : j \in 1..(Len(matrixTable) - 1) /\ j < i
      BY <1>0, <2>2
    <3> QED
      BY <2>3, <3>1, <3>2
  <2>8. \A j \in 1..Len(matrixTable') : matrixTable'[j].by \in Producers =>
            /\ piece'[matrixTable'[j].by].pc = "done"
            /\ matrixTable'[j].key = piece'[matrixTable'[j].by].key
    BY <2>4, <2>6 DEF ContentInv
  <2>9. \A q \in Producers : piece'[q].key \notin blind' =>
            \A j \in 1..Len(matrixTable') :
                matrixTable'[j].by \in piece'[q].since => ~Taken(matrixTable', piece'[q].key, j)
    BY <2>1, <2>4, <2>6 DEF ContentInv, Taken
  <2>10. \A q \in Producers : ~piece'[q].shaken =>
             /\ piece'[q].read <= Len(matrixTable')
             /\ ~piece'[q].found /\ piece'[q].key \notin blind' =>
                    \A j \in 1..piece'[q].read : ~Taken(matrixTable', piece'[q].key, j)
    BY <2>1, <2>4, <2>7 DEF ContentInv, Taken
  <2>11. \A q \in Producers : \A x \in piece'[q].since : piece'[x].pc = "done"
    BY <2>4 DEF ContentInv
  <2> QED
    BY <2>5, <2>8, <2>9, <2>10, <2>11 DEF ContentInv, Taken
<1>9. ASSUME UNCHANGED contentVars PROVE ContentInv'
  BY <1>9 DEF contentVars, ContentInv, Matrix!TypeOK, Taken
<1> QED
  BY <1>1, <1>2, <1>3, <1>4, <1>5, <1>6, <1>7, <1>8, <1>9 DEF Matrix!Next

LEMMA ContentAlways == Spec => [](part = "content" => ContentInv)
<1>1. Init => (part = "content" => ContentInv)
  BY ContentInitially DEF Init
<1>2. (part = "content" => ContentInv) /\ [Next]_vars => (part = "content" => ContentInv)'
  BY ContentStep DEF Next, vars
<1> QED
  BY <1>1, <1>2, PTL DEF Spec

\* Two committed pieces share a key that is not blind only if each had read the table to its
\* end before the other was there, for every number of producers, of rows that people add,
\* move and remove, and of rows that a check may read.
THEOREM DuplicatesOverlapped == Spec => []DuplicatesOverlap
<1>1. ASSUME ContentInv PROVE Matrix!DuplicatesOverlap
  <2>1. DOMAIN matrixTable = 1..Len(matrixTable)
    BY <1>1 DEF ContentInv, Matrix!TypeOK
  <2> QED
    BY <1>1, <2>1 DEF ContentInv, Matrix!DuplicatesOverlap, Matrix!Committed, Taken
<1> QED
  BY <1>1, ContentAlways, PTL DEF DuplicatesOverlap

-----------------------------------------------------------------------------
\* Virality research.

\* A set of naturals has a least element.
LEMMA LeastNatural == ASSUME NEW T \in SUBSET Nat, T # {}
                      PROVE  \E x \in T : \A y \in T : x <= y
<1> DEFINE R == OpToRel(<, Nat)
<1>1. IsWellFoundedOn(R, Nat)
  BY NatLessThanWellFounded
<1>2. \A x, y \in Nat : x < y => <<x, y>> \in R
  BY DEF OpToRel
<1> HIDE DEF R
<1>3. PICK x \in T : \A y \in T : ~ (<<y, x>> \in R)
  BY <1>1, WFMin
<1>4. \A y \in T : ~ (y < x)
  BY <1>2, <1>3
<1> QED
  BY <1>4

LEMMA ScoutsCardinality == ASSUME NEW S PROVE Scouts!Cardinality(S) = Cardinality(S)
BY DEF Cardinality, Scouts!Cardinality

\* The keys of a run are a sequence of names without repetition.
LEMMA OrderOfKeys ==
    ASSUME keys \in Scouts!Orders
    PROVE  /\ keys \in [1..Len(keys) -> ApifyKeys]
           /\ Len(keys) \in 0..Cardinality(ApifyKeys) /\ Cardinality(ApifyKeys) \in Nat \ {0}
           /\ \A i, j \in 1..Len(keys) : i # j => keys[i] # keys[j]
           /\ IsFiniteSet(Scouts!Held) /\ Cardinality(Scouts!Held) <= Len(keys)
           /\ keys # <<>> => Len(keys) > 0
<1>1. Cardinality(ApifyKeys) \in Nat \ {0}
  BY ServicesAssumption, FS_CardinalityType, FS_EmptySet
<1>2. PICK n \in 0..Cardinality(ApifyKeys) :
          /\ keys \in [1..n -> ApifyKeys]
          /\ \A i, j \in 1..n : i # j => keys[i] # keys[j]
  BY ScoutsCardinality DEF Scouts!Orders
<1>3. n \in Nat /\ Len(keys) = n /\ DOMAIN keys = 1..n
  BY <1>1, <1>2
<1>4. keys \in Surjection(1..n, Scouts!Held)
  BY <1>2 DEF Surjection, Scouts!Held
<1>5. IsFiniteSet(1..n) /\ Cardinality(1..n) = n
  BY <1>3, FS_Interval
<1>6. keys # <<>> => n > 0
  BY <1>2, <1>3
<1> QED
  BY <1>1, <1>2, <1>3, <1>4, <1>5, <1>6, FS_Surjection

\* Arithmetic of a position that goes round n places.
LEMMA RoundOnce == ASSUME NEW n \in Nat \ {0}, NEW a \in 0..2*n-1
                   PROVE  a % n = IF a < n THEN a ELSE a - n
<1>1. CASE a < n
  BY <1>1
<1>2. CASE a >= n
  <2>1. a \in n..2*n-1
    BY <1>2
  <2> QED
    BY <1>2, <2>1
<1> QED
  BY <1>1, <1>2

\* The turn is of a key that was not refused, and every key from the cursor to it, round
\* the end of the vault's lines, was.
LEMMA TurnIsNext ==
    ASSUME keys \in Scouts!Orders, cursor \in 1..Len(keys), ~ Scouts!Held \subseteq excluded
    PROVE  /\ Scouts!Turn \in 1..Len(keys) /\ keys[Scouts!Turn] \notin excluded
           /\ \A i \in 1..Len(keys) :
                  (IF cursor <= Scouts!Turn THEN cursor <= i /\ i < Scouts!Turn
                                            ELSE cursor <= i \/ i < Scouts!Turn)
                      => keys[i] \in excluded
<1> DEFINE n == Len(keys)
           offsets == {o \in 0..n-1 : keys[Scouts!At(o)] \notin excluded}
           Way(i) == IF cursor <= i THEN i - cursor ELSE i - cursor + n
<1>1. n \in Nat \ {0}
  BY OrderOfKeys
<1>2. \A o \in 0..n-1 : Scouts!At(o) = IF cursor + o <= n THEN cursor + o
                                       ELSE cursor + o - n
  <2>1. ASSUME NEW o \in 0..n-1
        PROVE  Scouts!At(o) = IF cursor + o <= n THEN cursor + o ELSE cursor + o - n
    <3> DEFINE a == cursor - 1 + o
    <3>1. a \in 0..2*n-1
      BY <1>1, <2>1
    <3>2. Scouts!At(o) = 1 + (a % n)
      BY DEF Scouts!At
    <3> HIDE DEF a, n
    <3>3. a % n = IF a < n THEN a ELSE a - n
      BY <1>1, <3>1, RoundOnce
    <3> QED
      BY <1>1, <3>2, <3>3 DEF a
  <2> QED
    BY <2>1
<1>3. \A i \in 1..n : Way(i) \in 0..n-1 /\ Scouts!At(Way(i)) = i
  BY <1>1, <1>2
<1>4. offsets # {}
  <2>1. PICK i \in 1..n : keys[i] \notin excluded
    BY OrderOfKeys DEF Scouts!Held
  <2> QED
    BY <1>3, <2>1
<1>5. PICK least \in offsets : \A o \in offsets : least <= o
  <2>1. offsets \in SUBSET Nat
    BY <1>1
  <2> HIDE DEF offsets
  <2> QED
    BY <1>4, <2>1, LeastNatural
<1>6. \A p \in 0..least - 1 : keys[Scouts!At(p)] \in excluded
  BY <1>1, <1>5
<1> DEFINE First(o) == /\ keys[Scouts!At(o)] \notin excluded
                       /\ \A p \in 0..o - 1 : keys[Scouts!At(p)] \in excluded
<1>7. \E o \in 0..n-1 : First(o)
  BY <1>5, <1>6
<1>8. PICK turn \in 0..n-1 : First(turn) /\ Scouts!Turn = Scouts!At(turn)
  <2> DEFINE turn == CHOOSE o \in 0..n-1 : First(o)
  <2>1. turn \in 0..n-1 /\ First(turn)
    BY <1>7
  <2>2. Scouts!Turn = Scouts!At(turn)
    BY DEF Scouts!Turn
  <2> QED
    BY <2>1, <2>2
<1>9. Scouts!Turn \in 1..n /\ keys[Scouts!Turn] \notin excluded
  BY <1>1, <1>2, <1>8
<1>10. Scouts!Turn = IF cursor + turn <= n THEN cursor + turn ELSE cursor + turn - n
  BY <1>2, <1>8
<1>11. ASSUME NEW i \in 1..n,
              IF cursor <= Scouts!Turn THEN cursor <= i /\ i < Scouts!Turn
                                       ELSE cursor <= i \/ i < Scouts!Turn
       PROVE  keys[i] \in excluded
  <2>1. Way(i) \in 0..turn - 1
    BY <1>1, <1>10, <1>11
  <2> QED
    BY <1>3, <1>8, <2>1
<1> QED
  BY <1>9, <1>11

\* Every key before the cursor that was not refused has been asked `rounds' + 1 times, and
\* every other of them `rounds' times.
Even(rounds) == \A i \in 1..Len(keys) :
                    keys[i] \notin excluded =>
                        asked[keys[i]] = IF i < cursor THEN rounds + 1 ELSE rounds

\* The rotation goes round the vault's lines; a turn of the loop that is over has cost a key.
ViralityInv ==
    /\ Scouts!TypeOK
    /\ keys # <<>> => cursor \in 1..Len(keys)
    /\ calling # Nothing => Scouts!Fetching /\ calling \notin excluded /\ tries < Len(keys)
    /\ tries <= Cardinality(excluded)
    /\ \E rounds \in Nat : Even(rounds)

LEMMA FreshStart == ASSUME NEW ks \in Scouts!Orders, keys' = ks, Scouts!Fresh,
                           brief' \in [Scouts!Channels ->
                                          (SUBSET (DOMAIN Platforms)) \cup {Nothing}],
                           report' \subseteq Scouts!Channels, runs' \in 0..MaxRuns
                    PROVE  ViralityInv'
<1> USE DEF Scouts!Fresh
<1>1. /\ keys' \in [1..Len(keys') -> ApifyKeys] /\ Len(keys') \in Nat
      /\ keys' # <<>> => Len(keys') > 0
      /\ Cardinality(ApifyKeys) \in Nat \ {0}
  <2>1. \E n \in 0..Cardinality(ApifyKeys) : ks \in [1..n -> ApifyKeys]
    BY ScoutsCardinality DEF Scouts!Orders
  <2>2. Cardinality(ApifyKeys) \in Nat \ {0}
    BY ServicesAssumption, FS_CardinalityType, FS_EmptySet
  <2> QED
    BY <2>1, <2>2
<1>2. Len(Canales) \in Nat /\ Len(Platforms) \in Nat
  BY ServicesAssumption
<1>3. Scouts!TypeOK'
  BY <1>1, <1>2, ScoutsCardinality DEF Scouts!TypeOK, Scouts!Held
<1>4. tries' <= Cardinality(excluded')
  BY FS_EmptySet
<1>5. Even(0)'
  BY <1>1 DEF Even
<1> QED
  BY <1>1, <1>3, <1>4, <1>5 DEF ViralityInv

\* A call made in turn leaves the shares even.
LEMMA AskKeepsEven ==
    ASSUME ViralityInv, Scouts!Ask
    PROVE  cursor' \in 1..Len(keys) /\ \E rounds \in Nat : Even(rounds)'
<1> DEFINE n == Len(keys)
           t == Scouts!Turn
<1>1. /\ keys \in Scouts!Orders /\ cursor \in 1..n /\ ~ Scouts!Held \subseteq excluded
      /\ cursor' = Scouts!After(t) /\ asked' = [asked EXCEPT ![keys[t]] = @ + 1]
      /\ asked \in [ApifyKeys -> Nat] /\ UNCHANGED <<keys, excluded>>
  BY DEF ViralityInv, Scouts!TypeOK, Scouts!Ask, Scouts!Fetching
<1>2. /\ n \in Nat \ {0} /\ keys \in [1..n -> ApifyKeys]
      /\ \A i, j \in 1..n : i # j => keys[i] # keys[j]
  BY <1>1, OrderOfKeys
<1>3. /\ t \in 1..n /\ keys[t] \notin excluded
      /\ \A i \in 1..n : (IF cursor <= t THEN cursor <= i /\ i < t
                                         ELSE cursor <= i \/ i < t) => keys[i] \in excluded
  BY <1>1, TurnIsNext
<1>4. cursor' = IF t = n THEN 1 ELSE t + 1
  <2>1. Scouts!After(t) = 1 + (t % n)
    BY DEF Scouts!After
  <2> HIDE DEF n, t
  <2>2. t % n = IF t < n THEN t ELSE t - n
    <3>1. t \in 0..2*n-1
      BY <1>2, <1>3
    <3> QED
      BY <1>2, <3>1, RoundOnce
  <2> QED
    BY <1>1, <1>2, <1>3, <2>1, <2>2
<1>5. PICK rounds \in Nat : Even(rounds)
  BY DEF ViralityInv
<1>6. \A i \in 1..n : asked'[keys[i]] = IF i = t THEN asked[keys[i]] + 1 ELSE asked[keys[i]]
  BY <1>1, <1>2, <1>3
<1>7. \A i \in 1..n : keys[i] \notin excluded =>
          asked[keys[i]] = IF i < cursor THEN rounds + 1 ELSE rounds
  BY <1>5 DEF Even
<1>8. \A r \in Nat : Even(r)' <=>
          \A i \in 1..n : keys[i] \notin excluded =>
              asked'[keys[i]] = IF i < cursor' THEN r + 1 ELSE r
  BY <1>1 DEF Even
<1> HIDE DEF n, t
<1>9. CASE cursor <= t /\ t < n
  <2>1. Even(rounds)'
    BY <1>1, <1>2, <1>3, <1>4, <1>6, <1>7, <1>8, <1>9
  <2>2. cursor' \in 1..n
    BY <1>2, <1>3, <1>4
  <2> QED
    BY <2>1, <2>2 DEF n
<1>10. CASE ~ (cursor <= t /\ t < n)
  <2>1. Even(rounds + 1)'
    BY <1>1, <1>2, <1>3, <1>4, <1>6, <1>7, <1>8, <1>10
  <2>2. cursor' \in 1..n
    BY <1>2, <1>3, <1>4
  <2>3. rounds + 1 \in Nat
    OBVIOUS
  <2> QED
    BY <2>1, <2>2, <2>3 DEF n
<1> QED
  BY <1>9, <1>10

LEMMA ViralityInitially == Scouts!Init => ViralityInv
<1> SUFFICES ASSUME Scouts!Init PROVE ViralityInv
  OBVIOUS
<1> USE DEF Scouts!Init
<1>1. keys = <<>> /\ Len(keys) = 0 /\ <<>> \in [1..0 -> ApifyKeys]
  OBVIOUS
<1>2. Cardinality(ApifyKeys) \in Nat \ {0}
  BY ServicesAssumption, FS_CardinalityType, FS_EmptySet
<1>3. keys \in Scouts!Orders
  BY <1>1, <1>2, ScoutsCardinality DEF Scouts!Orders
<1>4. Len(Canales) \in Nat /\ Len(Platforms) \in Nat /\ MaxRuns \in Nat
  BY ServicesAssumption
<1>5. Scouts!TypeOK
  <2>1. asked \in [ApifyKeys -> Nat]
    OBVIOUS
  <2>2. brief \in [Scouts!Channels -> (SUBSET (DOMAIN Platforms)) \cup {Nothing}]
    OBVIOUS
  <2>3. cursor \in 1..Scouts!Cardinality(ApifyKeys) /\ tries \in 0..Len(keys)
    BY <1>1, <1>2, ScoutsCardinality
  <2>4. canal \in 1..Len(Canales)+1 /\ platform \in 1..Len(Platforms)+1 /\ runs \in 0..MaxRuns
    BY <1>4
  <2> QED
    BY <1>3, <2>1, <2>2, <2>3, <2>4 DEF Scouts!TypeOK
<1>6. tries <= Cardinality(excluded)
  BY FS_EmptySet
<1>7. Even(0)
  BY <1>1 DEF Even
<1> QED
  BY <1>1, <1>5, <1>6, <1>7 DEF ViralityInv

\* What is over and done with a platform, whichever way it ended.
LEMMA PlatformOver ==
    ASSUME ViralityInv, Scouts!Fetching, Scouts!NextPlatform, UNCHANGED excluded,
           found' \in {found, found \cup {platform}}
    PROVE  ViralityInv'
<1> USE DEF Scouts!NextPlatform, Scouts!Fetching
<1>1. /\ Scouts!TypeOK /\ keys # <<>> /\ platform \in 1..Len(Platforms)
      /\ Len(Platforms) \in Nat /\ DOMAIN Platforms = 1..Len(Platforms)
  BY ServicesAssumption DEF ViralityInv, Scouts!TypeOK
<1>2. Len(keys) \in Nat /\ IsFiniteSet(excluded)
  BY <1>1, OrderOfKeys, FS_Subset DEF Scouts!TypeOK
<1>3. Scouts!TypeOK'
  BY <1>1, <1>2 DEF Scouts!TypeOK, Scouts!Held
<1>4. 0 <= Cardinality(excluded)
  BY <1>2, FS_CardinalityType
<1>5. \A rounds \in Nat : Even(rounds)' = Even(rounds)
  BY DEF Even
<1> QED
  BY <1>1, <1>3, <1>4, <1>5 DEF ViralityInv

LEMMA ViralityStep == ViralityInv /\ [Scouts!Next]_viralityVars => ViralityInv'
<1> SUFFICES ASSUME ViralityInv, [Scouts!Next]_viralityVars PROVE ViralityInv'
  OBVIOUS
<1>0. /\ Scouts!TypeOK /\ keys \in Scouts!Orders /\ excluded \subseteq Scouts!Held
      /\ MaxRuns \in Nat
  BY ServicesAssumption DEF ViralityInv, Scouts!TypeOK
<1>a. /\ Len(keys) \in Nat /\ IsFiniteSet(excluded)
      /\ keys \in [1..Len(keys) -> ApifyKeys] /\ Len(keys) <= Cardinality(ApifyKeys)
      /\ Cardinality(ApifyKeys) \in Nat \ {0}
  BY <1>0, OrderOfKeys, FS_Subset
<1>1. ASSUME NEW ks \in Scouts!Orders, Scouts!Start(ks) PROVE ViralityInv'
  <2>1. runs' \in 0..MaxRuns
    BY <1>0, <1>1 DEF Scouts!Start, Scouts!TypeOK
  <2> QED
    BY <1>0, <1>1, <2>1, FreshStart DEF Scouts!Start, Scouts!TypeOK
<1>2. ASSUME Scouts!Ask PROVE ViralityInv'
  <2>1. cursor' \in 1..Len(keys) /\ \E rounds \in Nat : Even(rounds)'
    BY <1>2, AskKeepsEven
  <2>2. Scouts!Turn \in 1..Len(keys) /\ keys[Scouts!Turn] \notin excluded
    BY <1>0, <1>2, TurnIsNext DEF Scouts!Ask, Scouts!Fetching, ViralityInv
  <2>3. /\ calling' = keys[Scouts!Turn] /\ tries < Len(keys) /\ Scouts!Fetching
        /\ asked' = [asked EXCEPT ![keys[Scouts!Turn]] = @ + 1]
        /\ UNCHANGED <<keys, excluded, tries, canal, platform, found, brief, entries,
                       report, runs>>
    BY <1>2 DEF Scouts!Ask
  <2>4. calling' \in Scouts!Held /\ calling' \notin excluded
    BY <1>a, <2>2, <2>3 DEF Scouts!Held
  <2>5. asked' \in [ApifyKeys -> Nat] /\ cursor' \in 1..Scouts!Cardinality(ApifyKeys)
    <3>1. cursor' \in 1..Cardinality(ApifyKeys)
      BY <1>a, <2>1
    <3>2. asked' \in [ApifyKeys -> Nat]
      BY <1>0, <1>a, <2>2, <2>3 DEF Scouts!TypeOK
    <3> QED
      BY <3>1, <3>2, ScoutsCardinality
  <2>6. Scouts!TypeOK'
    BY <1>0, <2>3, <2>4, <2>5 DEF Scouts!TypeOK, Scouts!Held
  <2> QED
    BY <2>1, <2>3, <2>4, <2>6 DEF ViralityInv, Scouts!Fetching
<1>3. ASSUME Scouts!Answered PROVE ViralityInv'
  BY <1>3, PlatformOver DEF Scouts!Answered, ViralityInv
<1>4. ASSUME Scouts!Refused PROVE ViralityInv'
  <2>1. /\ calling # Nothing /\ excluded' = excluded \cup {calling} /\ calling' = Nothing
        /\ tries' = tries + 1
        /\ UNCHANGED <<keys, cursor, asked, canal, platform, found, brief, entries,
                       report, runs>>
    BY <1>4 DEF Scouts!Refused
  <2>2. /\ calling \in Scouts!Held \ excluded /\ tries < Len(keys) /\ tries \in Nat
        /\ tries <= Cardinality(excluded) /\ Scouts!Fetching
    BY <1>a, <2>1 DEF ViralityInv, Scouts!TypeOK
  <2>3. Cardinality(excluded') = Cardinality(excluded) + 1 /\ Cardinality(excluded) \in Nat
    <3>1. /\ IsFiniteSet(excluded) /\ calling \notin excluded
          /\ excluded' = excluded \cup {calling}
      BY <1>a, <2>1, <2>2
    <3>2. Cardinality(excluded) \in Nat
      BY <3>1, FS_CardinalityType
    <3>3. Cardinality(excluded \cup {calling}) = Cardinality(excluded) + 1
      BY <3>1, FS_AddElement
    <3> QED
      BY <3>1, <3>2, <3>3
  <2>4. Scouts!TypeOK'
    BY <1>0, <1>a, <2>1, <2>2 DEF Scouts!TypeOK, Scouts!Held
  <2>5. tries' <= Cardinality(excluded')
    BY <2>1, <2>2, <2>3
  <2>6. \A rounds \in Nat : Even(rounds) => Even(rounds)'
    BY <2>1 DEF Even
  <2> QED
    BY <2>1, <2>4, <2>5, <2>6 DEF ViralityInv
<1>5. ASSUME Scouts!Failed PROVE ViralityInv'
  BY <1>5, PlatformOver DEF Scouts!Failed, ViralityInv
<1>6. ASSUME Scouts!NoKeys PROVE ViralityInv'
  BY <1>6, PlatformOver DEF Scouts!NoKeys, ViralityInv
<1>7. ASSUME Scouts!Dies PROVE ViralityInv'
  <2>1. <<>> \in Scouts!Orders
    <3>1. <<>> \in [1..0 -> ApifyKeys]
      OBVIOUS
    <3> QED
      BY <1>a, <3>1, ScoutsCardinality DEF Scouts!Orders
  <2> QED
    BY <1>0, <1>7, <2>1, FreshStart DEF Scouts!Dies, Scouts!TypeOK
<1>8. ASSUME Scouts!WriteBrief PROVE ViralityInv'
  <2>1. /\ Scouts!Briefing /\ brief' = [brief EXCEPT ![Canales[canal]] = found]
        /\ entries' = entries \cup {Canales[canal]}
        /\ canal' = canal + 1 /\ platform' = 1 /\ found' = {}
        /\ UNCHANGED <<keys, cursor, excluded, asked, calling, tries, report, runs>>
    BY <1>8 DEF Scouts!WriteBrief
  <2>2. Len(Canales) \in Nat /\ Len(Platforms) \in Nat
    BY ServicesAssumption
  <2>3. canal \in 1..Len(Canales) /\ canal' \in 1..Len(Canales) + 1
    BY <1>0, <2>1, <2>2 DEF Scouts!TypeOK, Scouts!Briefing
  <2>4. Canales[canal] \in Scouts!Channels
    <3>1. DOMAIN Canales = 1..Len(Canales)
      BY ServicesAssumption
    <3> QED
      BY <2>3, <3>1 DEF Scouts!Channels
  <2>5. platform' \in 1..Len(Platforms) + 1
    BY <2>1, <2>2
  <2>6. brief' \in [Scouts!Channels -> (SUBSET (DOMAIN Platforms)) \cup {Nothing}]
    BY <1>0, <2>1, <2>4 DEF Scouts!TypeOK
  <2>7. entries' \subseteq Scouts!Channels
    BY <1>0, <2>1, <2>4 DEF Scouts!TypeOK
  <2>8. Scouts!TypeOK'
    BY <1>0, <2>1, <2>3, <2>5, <2>6, <2>7 DEF Scouts!TypeOK, Scouts!Held
  <2>9. calling = Nothing
    BY <1>0, <2>1, <2>2 DEF ViralityInv, Scouts!TypeOK, Scouts!Briefing, Scouts!Fetching
  <2>10. \A rounds \in Nat : Even(rounds)' = Even(rounds)
    BY <2>1 DEF Even
  <2> QED
    BY <2>1, <2>8, <2>9, <2>10 DEF ViralityInv
<1>9. ASSUME Scouts!WriteReport PROVE ViralityInv'
  <2>1. <<>> \in Scouts!Orders
    <3>1. <<>> \in [1..0 -> ApifyKeys]
      OBVIOUS
    <3> QED
      BY <1>a, <3>1, ScoutsCardinality DEF Scouts!Orders
  <2> QED
    BY <1>0, <1>9, <2>1, FreshStart DEF Scouts!WriteReport, Scouts!TypeOK
<1>10. ASSUME UNCHANGED viralityVars PROVE ViralityInv'
  <2>1. \A rounds \in Nat : Even(rounds)' = Even(rounds)
    BY <1>10 DEF viralityVars, Even
  <2> QED
    BY <1>0, <1>10, <2>1
    DEF viralityVars, ViralityInv, Scouts!TypeOK, Scouts!Held, Scouts!Fetching
<1> QED
  BY <1>1, <1>2, <1>3, <1>4, <1>5, <1>6, <1>7, <1>8, <1>9, <1>10 DEF Scouts!Next

LEMMA ViralityAlways == Spec => [](part = "virality" => ViralityInv)
<1>1. Init => (part = "virality" => ViralityInv)
  BY ViralityInitially DEF Init
<1>2. (part = "virality" => ViralityInv) /\ [Next]_vars => (part = "virality" => ViralityInv)'
  BY ViralityStep DEF Next, vars
<1> QED
  BY <1>1, <1>2, PTL DEF Spec

\* However many keys the vault holds and whichever of them are refused, those that are not
\* have been asked equally often but for one, and a platform goes without only when every
\* key was refused.
THEOREM RotationShares == Spec => []KeysTakeTurns
<1>1. ASSUME ViralityInv PROVE Scouts!KeysTakeTurns
  <2>1. /\ keys \in Scouts!Orders /\ excluded \subseteq Scouts!Held
        /\ asked \in [ApifyKeys -> Nat]
        /\ tries <= Cardinality(excluded)
    BY <1>1 DEF ViralityInv, Scouts!TypeOK
  <2>2. /\ keys \in [1..Len(keys) -> ApifyKeys] /\ IsFiniteSet(Scouts!Held)
        /\ Cardinality(Scouts!Held) <= Len(keys) /\ Len(keys) \in Nat
    BY <2>1, OrderOfKeys
  <2>3. ASSUME NEW a \in Scouts!Held \ excluded, NEW b \in Scouts!Held \ excluded
        PROVE  asked[a] <= asked[b] + 1
    <3>1. PICK i \in 1..Len(keys), j \in 1..Len(keys) : a = keys[i] /\ b = keys[j]
      BY <2>2 DEF Scouts!Held
    <3>2. PICK rounds \in Nat : Even(rounds)
      BY <1>1 DEF ViralityInv
    <3> QED
      BY <3>1, <3>2 DEF Even
  <2>4. ASSUME tries = Len(keys) PROVE Scouts!Held \subseteq excluded
    <3>1. /\ IsFiniteSet(excluded) /\ Cardinality(excluded) <= Cardinality(Scouts!Held)
          /\ Cardinality(excluded) = Cardinality(Scouts!Held) => excluded = Scouts!Held
      BY <2>1, <2>2, FS_Subset
    <3>2. Cardinality(excluded) \in Nat /\ Cardinality(Scouts!Held) \in Nat
      BY <2>2, <3>1, FS_CardinalityType
    <3> QED
      BY <2>1, <2>2, <2>4, <3>1, <3>2
  <2> QED
    BY <2>3, <2>4 DEF Scouts!KeysTakeTurns
<1> QED
  BY <1>1, ViralityAlways, PTL DEF KeysTakeTurns

-----------------------------------------------------------------------------
\* Key registry.

Planned(q) == plan[q].add \cup plan[q].sanitize

\* What the owner wrote there last is not fit for use, or came after the plan.
PlansSpareTheOwner ==
    plan # Idle => \A q \in Repos : \A k \in Planned(q) :
                       <<q, k>> \in hurried \/ mine[q][k] \notin Secrets

\* A build under way keeps what the owner had written when it began.
BuildsKeepCuration ==
    builder # Idle => \A k \in VaultKeys :
        /\ registry[k] # NoEntry /\ registry[k].curated /\ <<NoEntry, k>> \notin hurried
        /\ builder[k] # NoEntry
        => builder[k].curated

\* While nothing changes, the build is of what there is, the registry then says who reads
\* what, the plan then reaches them all, and its application has nothing left to do.
ServedInSteps ==
    /\ served = "building" => builder = [k \in VaultKeys |-> Registry!EntryOf(k)]
    /\ served = "built" => \A k \in VaultKeys : vault[k] # Absent =>
                               registry[k] # NoEntry /\ registry[k].consumers = code[k]
    /\ served = "planned" =>
           /\ plan # Idle /\ source \in {Idle, vault}
           /\ \A k \in VaultKeys : \A q \in code[k] : Registry!Fit(vault[k]) =>
                  k \in Planned(q) \/ env[q][k] \notin {Absent, "placeholder"}
    /\ served = "yes" => plan = Idle

RegistryInv == /\ Registry!TypeOK
               /\ plan = Idle => source = Idle
               /\ Registry!HumanValuesKept /\ PlansSpareTheOwner
               /\ BuildsKeepCuration
               /\ ServedInSteps /\ Registry!ConsumersServed

LEMMA RegistryInitially == Registry!Init => RegistryInv
<1> SUFFICES ASSUME Registry!Init PROVE RegistryInv
  OBVIOUS
<1> USE DEF Registry!Init
<1>1. Registry!TypeOK
  BY ServicesAssumption DEF Registry!TypeOK
<1>2. Registry!HumanValuesKept
  BY DEF Registry!HumanValuesKept
<1> QED
  BY <1>1, <1>2 DEF RegistryInv, PlansSpareTheOwner, BuildsKeepCuration, ServedInSteps,
     Registry!ConsumersServed

\* An edit puts an end to a chain of build and plan.
LEMMA EditEndsChain == ASSUME Registry!Edits, Registry!TypeOK
                       PROVE  /\ ServedInSteps' /\ Registry!ConsumersServed'
                              /\ served' = "no" /\ keyEdits' \in 0..MaxKeyEdits
BY ServicesAssumption
   DEF Registry!Edits, Registry!TypeOK, ServedInSteps, Registry!ConsumersServed

LEMMA OwnerKeepsRegistryInv ==
    ASSUME RegistryInv,
           \/ \E k \in VaultKeys, v \in Registry!Values \cup {Absent} : Registry!EditVault(k, v)
           \/ \E k \in VaultKeys, readers \in SUBSET Repos : Registry!EditCode(k, readers)
           \/ \E q \in Repos, k \in VaultKeys, v \in Registry!Values \cup {Absent} :
                  Registry!EditEnv(q, k, v)
           \/ \E k \in VaultKeys : Registry!Curate(k)
    PROVE  RegistryInv'
<1> USE DEF RegistryInv
<1>0. Registry!TypeOK /\ NoEntry \notin Repos \cup Registry!Entries
  BY ServicesAssumption
<1>1. ASSUME NEW k \in VaultKeys, NEW v \in Registry!Values \cup {Absent},
             Registry!EditVault(k, v)
      PROVE  RegistryInv'
  <2>1. /\ Registry!Edits /\ vault' = [vault EXCEPT ![k] = v]
        /\ UNCHANGED <<code, env, registry, builder, plan, source, mine, hurried, scripts>>
    BY <1>1 DEF Registry!EditVault
  <2>2. Registry!TypeOK'
    BY <1>0, <2>1, EditEndsChain DEF Registry!TypeOK
  <2>3. Registry!HumanValuesKept' /\ PlansSpareTheOwner' /\ BuildsKeepCuration'
    BY <2>1 DEF Registry!HumanValuesKept, PlansSpareTheOwner, BuildsKeepCuration, Planned
  <2> QED
    BY <1>0, <2>1, <2>2, <2>3, EditEndsChain
<1>2. ASSUME NEW k \in VaultKeys, NEW readers \in SUBSET Repos, Registry!EditCode(k, readers)
      PROVE  RegistryInv'
  <2>1. /\ Registry!Edits /\ code' = [code EXCEPT ![k] = readers]
        /\ UNCHANGED <<vault, env, registry, builder, plan, source, mine, hurried, scripts>>
    BY <1>2 DEF Registry!EditCode
  <2>2. Registry!TypeOK'
    BY <1>0, <2>1, EditEndsChain DEF Registry!TypeOK
  <2>3. Registry!HumanValuesKept' /\ PlansSpareTheOwner' /\ BuildsKeepCuration'
    BY <2>1 DEF Registry!HumanValuesKept, PlansSpareTheOwner, BuildsKeepCuration, Planned
  <2> QED
    BY <1>0, <2>1, <2>2, <2>3, EditEndsChain
<1>3. ASSUME NEW q \in Repos, NEW k \in VaultKeys, NEW v \in Registry!Values \cup {Absent},
             Registry!EditEnv(q, k, v)
      PROVE  RegistryInv'
  <2>1. /\ Registry!Edits /\ env' = [env EXCEPT ![q][k] = v]
        /\ mine' = [mine EXCEPT ![q][k] = v]
        /\ hurried' = IF plan = Idle THEN hurried ELSE hurried \cup {<<q, k>>}
        /\ UNCHANGED <<vault, code, registry, builder, plan, source, scripts>>
    BY <1>3 DEF Registry!EditEnv
  <2>2. /\ env' \in [Repos -> [VaultKeys -> Registry!Values \cup {Absent}]]
        /\ mine' \in [Repos -> [VaultKeys -> Registry!Values \cup {Absent}]]
    BY <1>0, <2>1 DEF Registry!TypeOK
  <2>3. hurried' \subseteq (Repos \cup {NoEntry}) \X VaultKeys
    BY <1>0, <2>1 DEF Registry!TypeOK
  <2>4. Registry!TypeOK'
    BY <1>0, <2>1, <2>2, <2>3, EditEndsChain DEF Registry!TypeOK
  <2>5. \A p \in Repos, j \in VaultKeys :
            /\ env'[p][j] = IF p = q /\ j = k THEN v ELSE env[p][j]
            /\ mine'[p][j] = IF p = q /\ j = k THEN v ELSE mine[p][j]
    BY <1>0, <2>1 DEF Registry!TypeOK
  <2>6. Registry!HumanValuesKept'
    BY <2>5 DEF Registry!HumanValuesKept
  <2>7. PlansSpareTheOwner'
    <3> SUFFICES ASSUME plan # Idle, NEW p \in Repos, NEW j \in Planned(p)
                 PROVE  <<p, j>> \in hurried' \/ mine'[p][j] \notin Secrets
      BY <2>1 DEF PlansSpareTheOwner, Planned
    <3>1. j \in VaultKeys
      BY <1>0 DEF Registry!TypeOK, Registry!Plans, Planned
    <3> QED
      BY <2>1, <2>5, <3>1 DEF PlansSpareTheOwner
  <2>8. BuildsKeepCuration'
    BY <2>1 DEF BuildsKeepCuration
  <2> QED
    BY <1>0, <2>1, <2>4, <2>6, <2>7, <2>8, EditEndsChain
<1>4. ASSUME NEW k \in VaultKeys, Registry!Curate(k) PROVE RegistryInv'
  <2>1. /\ Registry!Edits /\ registry[k] # NoEntry
        /\ registry' = [registry EXCEPT ![k].curated = TRUE]
        /\ hurried' = IF builder = Idle THEN hurried ELSE hurried \cup {<<NoEntry, k>>}
        /\ UNCHANGED <<vault, code, env, builder, plan, source, mine, scripts>>
    BY <1>4 DEF Registry!Curate
  <2>2. registry' \in [VaultKeys -> Registry!Entries \cup {NoEntry}]
    BY <1>0, <2>1 DEF Registry!TypeOK, Registry!Entries
  <2>3. hurried' \subseteq (Repos \cup {NoEntry}) \X VaultKeys
    BY <1>0, <2>1 DEF Registry!TypeOK
  <2>4. Registry!TypeOK'
    BY <1>0, <2>1, <2>2, <2>3, EditEndsChain DEF Registry!TypeOK
  <2>5. Registry!HumanValuesKept' /\ PlansSpareTheOwner'
    BY <2>1 DEF Registry!HumanValuesKept, PlansSpareTheOwner, Planned
  <2>6. BuildsKeepCuration'
    BY <1>0, <2>1 DEF BuildsKeepCuration, Registry!TypeOK
  <2> QED
    BY <1>0, <2>1, <2>4, <2>5, <2>6, EditEndsChain
<1> QED
  BY <1>1, <1>2, <1>3, <1>4

LEMMA BuildKeepsRegistryInv ==
    ASSUME RegistryInv, Registry!BuildRead \/ Registry!BuildWrite
    PROVE  RegistryInv'
<1> USE DEF RegistryInv
<1>0. /\ Registry!TypeOK /\ NoEntry \notin Repos /\ NoEntry \notin Registry!Entries
      /\ MaxScripts \in Nat
  BY ServicesAssumption
<1>1. ASSUME Registry!BuildRead PROVE RegistryInv'
  <2>1. /\ builder = Idle /\ scripts < MaxScripts /\ scripts' = scripts + 1
        /\ builder' = [k \in VaultKeys |-> Registry!EntryOf(k)]
        /\ hurried' = hurried \ ({NoEntry} \X VaultKeys)
        /\ served' = "building"
        /\ UNCHANGED <<vault, code, env, registry, plan, source, mine, keyEdits>>
    BY <1>1 DEF Registry!BuildRead, Registry!Runs
  <2>2. \A k \in VaultKeys : /\ Registry!EntryOf(k) \in Registry!Entries \cup {NoEntry}
                             /\ registry[k] # NoEntry /\ Registry!EntryOf(k) # NoEntry
                                => Registry!EntryOf(k).curated = registry[k].curated
    BY <1>0 DEF Registry!TypeOK, Registry!EntryOf, Registry!Entries
  <2>3. builder' \in [VaultKeys -> Registry!Entries \cup {NoEntry}]
    BY <2>1, <2>2
  <2>4. scripts' \in 0..MaxScripts
    BY <1>0, <2>1 DEF Registry!TypeOK
  <2>5. Registry!TypeOK'
    BY <1>0, <2>1, <2>3, <2>4 DEF Registry!TypeOK
  <2>6. \A q \in Repos, k \in VaultKeys : <<q, k>> \in hurried => <<q, k>> \in hurried'
    BY <1>0, <2>1
  <2>7. PlansSpareTheOwner'
    <3> SUFFICES ASSUME plan # Idle, NEW p \in Repos, NEW j \in Planned(p)
                 PROVE  <<p, j>> \in hurried' \/ mine[p][j] \notin Secrets
      BY <2>1 DEF PlansSpareTheOwner, Planned
    <3>1. j \in VaultKeys
      BY <1>0 DEF Registry!TypeOK, Registry!Plans, Planned
    <3> QED
      BY <2>6, <3>1 DEF PlansSpareTheOwner
  <2>8. BuildsKeepCuration'
    BY <2>1, <2>2 DEF BuildsKeepCuration
  <2>9. Registry!HumanValuesKept'
    BY <2>1 DEF Registry!HumanValuesKept
  <2>10. ServedInSteps' /\ Registry!ConsumersServed'
    BY <2>1 DEF ServedInSteps, Registry!ConsumersServed, Registry!EntryOf
  <2> QED
    BY <2>1, <2>5, <2>7, <2>8, <2>9, <2>10
<1>2. ASSUME Registry!BuildWrite PROVE RegistryInv'
  <2>1. /\ builder # Idle /\ registry' = builder /\ builder' = Idle
        /\ served' = IF served = "building" THEN "built" ELSE "no"
        /\ UNCHANGED <<vault, code, env, plan, source, mine, hurried, keyEdits, scripts>>
    BY <1>2 DEF Registry!BuildWrite
  <2>2. Registry!TypeOK'
    BY <1>0, <2>1 DEF Registry!TypeOK
  <2>3. Registry!HumanValuesKept' /\ PlansSpareTheOwner' /\ BuildsKeepCuration'
    BY <2>1 DEF Registry!HumanValuesKept, PlansSpareTheOwner, Planned, BuildsKeepCuration
  <2>4. ASSUME served = "building", NEW k \in VaultKeys, vault[k] # Absent
        PROVE  builder[k] # NoEntry /\ builder[k].consumers = code[k]
    <3>1. builder[k] = Registry!EntryOf(k)
      BY <2>4 DEF ServedInSteps
    <3>2. registry[k] \in Registry!Entries \cup {NoEntry} /\ code[k] \in SUBSET Repos
      BY <1>0 DEF Registry!TypeOK
    <3>3. Registry!EntryOf(k) \in Registry!Entries /\ Registry!EntryOf(k).consumers = code[k]
      BY <2>4, <3>2 DEF Registry!EntryOf, Registry!Entries
    <3> QED
      BY <1>0, <3>1, <3>3
  <2>5. ServedInSteps' /\ Registry!ConsumersServed'
    BY <2>1, <2>4 DEF ServedInSteps, Registry!ConsumersServed
  <2> QED
    BY <2>1, <2>2, <2>3, <2>5
<1> QED
  BY <1>1, <1>2

LEMMA PlanKeepsRegistryInv ==
    ASSUME RegistryInv, Registry!MakePlan \/ Registry!ReadVault \/ Registry!EndPlan
    PROVE  RegistryInv'
<1> USE DEF RegistryInv
<1>0. /\ Registry!TypeOK /\ NoEntry \notin Repos /\ Idle \notin Registry!Plans
      /\ MaxScripts \in Nat
      /\ Secrets \cap {Absent, "blank", "quoted", "placeholder"} = {}
  BY ServicesAssumption
<1>1. ASSUME Registry!MakePlan PROVE RegistryInv'
  <2>1. /\ plan = Idle /\ scripts < MaxScripts /\ scripts' = scripts + 1
        /\ plan' = [q \in Repos |-> Registry!PlanOf(q)]
        /\ hurried' = hurried \ (Repos \X VaultKeys)
        /\ served' = IF served = "built" THEN "planned" ELSE "no"
        /\ UNCHANGED <<vault, code, env, registry, builder, source, mine, keyEdits>>
    BY <1>1 DEF Registry!MakePlan, Registry!Runs
  <2>2. \A q \in Repos : Registry!PlanOf(q) \in [add : SUBSET VaultKeys,
                                                 sanitize : SUBSET VaultKeys]
    BY DEF Registry!PlanOf, Registry!Needed
  <2>3. plan' \in Registry!Plans /\ plan' # Idle
    BY <1>0, <2>1, <2>2 DEF Registry!Plans
  <2>4. scripts' \in 0..MaxScripts
    BY <1>0, <2>1 DEF Registry!TypeOK
  <2>5. Registry!TypeOK'
    BY <1>0, <2>1, <2>3, <2>4 DEF Registry!TypeOK
  <2>6. \A q \in Repos : Planned(q)' = Registry!PlanOf(q).add \cup Registry!PlanOf(q).sanitize
    BY <2>1 DEF Planned
  <2>7. PlansSpareTheOwner'
    <3> SUFFICES ASSUME NEW q \in Repos,
                        NEW k \in Registry!PlanOf(q).add \cup Registry!PlanOf(q).sanitize
                 PROVE  mine[q][k] \notin Secrets
      BY <2>1, <2>6 DEF PlansSpareTheOwner
    <3>1. k \in VaultKeys /\ env[q][k] \in {Absent, "placeholder"}
      BY DEF Registry!PlanOf, Registry!Needed, Registry!Read
    <3> QED
      BY <1>0, <3>1 DEF Registry!HumanValuesKept
  <2>8. Registry!HumanValuesKept'
    BY <2>1 DEF Registry!HumanValuesKept
  <2>9. BuildsKeepCuration'
    BY <1>0, <2>1 DEF BuildsKeepCuration
  <2>10. ASSUME served = "built", NEW k \in VaultKeys, NEW q \in code[k],
                Registry!Fit(vault[k]), env[q][k] \in {Absent, "placeholder"}
         PROVE  k \in Registry!PlanOf(q).add \cup Registry!PlanOf(q).sanitize
    BY <2>10 DEF ServedInSteps, Registry!PlanOf, Registry!Needed, Registry!Read, Registry!Fit
  <2>11. \A k \in VaultKeys : code[k] \subseteq Repos
    BY <1>0 DEF Registry!TypeOK
  <2>12. ServedInSteps' /\ Registry!ConsumersServed'
    BY <2>1, <2>3, <2>6, <2>10, <2>11 DEF ServedInSteps, Registry!ConsumersServed, Registry!Fit
  <2> QED
    BY <2>1, <2>3, <2>5, <2>7, <2>8, <2>9, <2>12
<1>2. ASSUME Registry!ReadVault PROVE RegistryInv'
  <2>1. /\ plan # Idle /\ source = Idle /\ source' = vault
        /\ UNCHANGED <<vault, code, env, registry, builder, plan, mine, hurried, served,
                       keyEdits, scripts>>
    BY <1>2 DEF Registry!ReadVault
  <2>2. Registry!TypeOK'
    BY <1>0, <2>1 DEF Registry!TypeOK
  <2>3. Registry!HumanValuesKept' /\ PlansSpareTheOwner' /\ BuildsKeepCuration'
    BY <2>1 DEF Registry!HumanValuesKept, PlansSpareTheOwner, Planned, BuildsKeepCuration
  <2>4. ServedInSteps' /\ Registry!ConsumersServed'
    BY <2>1 DEF ServedInSteps, Registry!ConsumersServed, Planned, Registry!Fit, Registry!EntryOf
  <2> QED
    BY <2>1, <2>2, <2>3, <2>4
<1>3. ASSUME Registry!EndPlan PROVE RegistryInv'
  <2>1. /\ plan # Idle /\ plan' = Idle /\ source' = Idle
        /\ served' = IF served = "planned" /\ source # Idle
                        /\ \A q \in Repos : plan[q].add \cup plan[q].sanitize = {}
                     THEN "yes" ELSE "no"
        /\ UNCHANGED <<vault, code, env, registry, builder, mine, hurried, keyEdits, scripts>>
    BY <1>3 DEF Registry!EndPlan
  <2>2. Registry!TypeOK'
    BY <1>0, <2>1 DEF Registry!TypeOK
  <2>3. Registry!HumanValuesKept' /\ PlansSpareTheOwner' /\ BuildsKeepCuration'
    BY <2>1 DEF Registry!HumanValuesKept, PlansSpareTheOwner, BuildsKeepCuration
  <2>4. \A k \in VaultKeys : code[k] \subseteq Repos
    BY <1>0 DEF Registry!TypeOK
  <2>5. ServedInSteps' /\ Registry!ConsumersServed'
    BY <2>1, <2>4 DEF ServedInSteps, Registry!ConsumersServed, Planned, Registry!Fit
  <2> QED
    BY <2>1, <2>2, <2>3, <2>5
<1> QED
  BY <1>1, <1>2, <1>3

LEMMA ApplyKeepsRegistryInv ==
    ASSUME RegistryInv, NEW q \in Repos, Registry!Apply(q) \/ Registry!Abort(q)
    PROVE  RegistryInv'
<1> USE DEF RegistryInv
<1>0. /\ Registry!TypeOK /\ Idle \notin Registry!Plans
      /\ Secrets \cap {Absent, "blank", "quoted", "placeholder"} = {}
  BY ServicesAssumption
<1>a. source # Idle /\ plan # Idle /\ plan \in Registry!Plans
      /\ plan' = [plan EXCEPT ![q] = [add |-> {}, sanitize |-> {}]]
  BY <1>0 DEF Registry!TypeOK, Registry!Apply, Registry!Abort
<1>b. plan' \in Registry!Plans /\ plan' # Idle
  BY <1>0, <1>a DEF Registry!Plans
<1>c. \A p \in Repos : Planned(p)' = IF p = q THEN {} ELSE Planned(p)
  BY <1>a DEF Planned, Registry!Plans
<1>d. \A p \in Repos : Planned(p) \subseteq VaultKeys
  BY <1>a DEF Planned, Registry!Plans
<1>1. ASSUME Registry!Apply(q) PROVE RegistryInv'
  <2>1. /\ env' = [env EXCEPT ![q] = [k \in VaultKeys |->
                       IF k \in Planned(q) THEN source[k] ELSE env[q][k]]]
        /\ mine' = [mine EXCEPT ![q] = [k \in VaultKeys |->
                        IF k \in Planned(q) /\ <<q, k>> \in hurried THEN Absent ELSE @[k]]]
        /\ \A k \in Planned(q) : source[k] # Absent
        /\ UNCHANGED <<vault, code, registry, builder, source, hurried, served, keyEdits,
                       scripts>>
    BY <1>1 DEF Registry!Apply, Planned
  <2>2. /\ env' \in [Repos -> [VaultKeys -> Registry!Values \cup {Absent}]]
        /\ mine' \in [Repos -> [VaultKeys -> Registry!Values \cup {Absent}]]
    BY <1>0, <1>a, <2>1 DEF Registry!TypeOK
  <2>3. Registry!TypeOK'
    BY <1>0, <1>b, <2>1, <2>2 DEF Registry!TypeOK
  <2>4. \A p \in Repos, k \in VaultKeys :
            /\ env'[p][k] = IF p = q /\ k \in Planned(q) THEN source[k] ELSE env[p][k]
            /\ mine'[p][k] = IF p = q /\ k \in Planned(q) /\ <<q, k>> \in hurried THEN Absent
                             ELSE mine[p][k]
    BY <1>0, <2>1 DEF Registry!TypeOK
  <2>5. Registry!HumanValuesKept'
    <3> SUFFICES ASSUME NEW p \in Repos, NEW k \in VaultKeys, mine'[p][k] \in Secrets
                 PROVE  env'[p][k] = mine'[p][k]
      BY DEF Registry!HumanValuesKept
    <3>1. CASE p = q /\ k \in Planned(q)
      <4>1. <<q, k>> \in hurried \/ mine[q][k] \notin Secrets
        BY <1>a, <3>1 DEF PlansSpareTheOwner
      <4> QED
        BY <1>0, <2>4, <3>1, <4>1
    <3>2. CASE ~ (p = q /\ k \in Planned(q))
      BY <2>4, <3>2 DEF Registry!HumanValuesKept
    <3> QED
      BY <3>1, <3>2
  <2>6. PlansSpareTheOwner'
    <3> SUFFICES ASSUME NEW p \in Repos, NEW k \in Planned(p)'
                 PROVE  <<p, k>> \in hurried \/ mine'[p][k] \notin Secrets
      BY <2>1 DEF PlansSpareTheOwner
    <3>1. p # q /\ k \in Planned(p) /\ k \in VaultKeys
      BY <1>c, <1>d
    <3>2. mine'[p][k] = mine[p][k]
      BY <2>4, <3>1
    <3> QED
      BY <1>a, <3>1, <3>2 DEF PlansSpareTheOwner
  <2>7. BuildsKeepCuration'
    BY <2>1 DEF BuildsKeepCuration
  <2>8. \A k \in VaultKeys : code[k] \subseteq Repos
    BY <1>0 DEF Registry!TypeOK
  <2>9. ASSUME served = "planned", NEW k \in VaultKeys, NEW p \in code[k],
               Registry!Fit(vault[k])
        PROVE  k \in Planned(p)' \/ env'[p][k] \notin {Absent, "placeholder"}
    <3>1. source = vault /\ (k \in Planned(p) \/ env[p][k] \notin {Absent, "placeholder"})
      BY <1>a, <2>9 DEF ServedInSteps
    <3>2. p \in Repos /\ vault[k] \notin {Absent, "placeholder"}
      BY <2>8, <2>9 DEF Registry!Fit
    <3> QED
      BY <1>c, <2>4, <3>1, <3>2
  <2>10. ServedInSteps' /\ Registry!ConsumersServed'
    BY <1>a, <1>b, <2>1, <2>9
    DEF ServedInSteps, Registry!ConsumersServed, Registry!EntryOf, Registry!Fit
  <2> QED
    BY <1>b, <2>3, <2>5, <2>6, <2>7, <2>10
<1>2. ASSUME Registry!Abort(q) PROVE RegistryInv'
  <2>1. /\ served' = "no"
        /\ UNCHANGED <<vault, code, env, registry, builder, source, mine, hurried, keyEdits,
                       scripts>>
    BY <1>2 DEF Registry!Abort
  <2>2. Registry!TypeOK'
    BY <1>0, <1>b, <2>1 DEF Registry!TypeOK
  <2>3. PlansSpareTheOwner'
    BY <1>a, <1>c, <2>1 DEF PlansSpareTheOwner
  <2>4. /\ Registry!HumanValuesKept' /\ BuildsKeepCuration' /\ ServedInSteps'
        /\ Registry!ConsumersServed'
    BY <2>1 DEF Registry!HumanValuesKept, BuildsKeepCuration, ServedInSteps,
       Registry!ConsumersServed
  <2> QED
    BY <1>b, <2>2, <2>3, <2>4
<1> QED
  BY <1>1, <1>2

LEMMA RegistryStep == RegistryInv /\ [Registry!Next]_keysVars => RegistryInv'
<1> SUFFICES ASSUME RegistryInv, [Registry!Next]_keysVars PROVE RegistryInv'
  OBVIOUS
<1>1. CASE Registry!Next
  BY <1>1, OwnerKeepsRegistryInv, BuildKeepsRegistryInv, PlanKeepsRegistryInv,
     ApplyKeepsRegistryInv DEF Registry!Next
<1>2. CASE UNCHANGED keysVars
  BY <1>2 DEF keysVars, RegistryInv, Registry!TypeOK, Registry!HumanValuesKept,
     PlansSpareTheOwner, BuildsKeepCuration, ServedInSteps, Registry!ConsumersServed,
     Planned, Registry!EntryOf, Registry!Fit
<1> QED
  BY <1>1, <1>2

LEMMA RegistryAlways == Spec => [](part = "keys" => RegistryInv)
<1>1. Init => (part = "keys" => RegistryInv)
  BY RegistryInitially DEF Init
<1>2. (part = "keys" => RegistryInv) /\ [Next]_vars => (part = "keys" => RegistryInv)'
  BY RegistryStep DEF Next, vars
<1> QED
  BY <1>1, <1>2, PTL DEF Spec

\* Whatever the owner edits between a plan and its application, a usable value of theirs is
\* overwritten only where it came after the plan.
THEOREM OwnersValuesStay == Spec => []HumanValuesKept
<1>1. RegistryInv => Registry!HumanValuesKept
  BY DEF RegistryInv
<1> QED
  BY <1>1, RegistryAlways, PTL DEF HumanValuesKept

\* A build, a plan and its application with nothing in between serve every reader of a key.
THEOREM ReadersServed == Spec => []ConsumersServed
<1>1. RegistryInv => Registry!ConsumersServed
  BY DEF RegistryInv
<1> QED
  BY <1>1, RegistryAlways, PTL DEF ConsumersServed

\* No step forgets what the owner wrote into an entry that stays, unless it was written
\* while the build that replaced it was under way.
THEOREM CurationStays == Spec => CurationKept
<1>1. ASSUME RegistryInv, [Registry!Next]_keysVars PROVE Registry!KeepsCuration
  <2>0. Registry!TypeOK
    BY <1>1 DEF RegistryInv
  <2>1. CASE registry' = registry
    BY <2>1 DEF Registry!KeepsCuration
  <2>2. ASSUME NEW k \in VaultKeys, Registry!Curate(k) PROVE Registry!KeepsCuration
    BY <2>0, <2>2 DEF Registry!Curate, Registry!KeepsCuration, Registry!TypeOK,
       Registry!Entries
  <2>3. CASE Registry!BuildWrite
    BY <1>1, <2>3 DEF Registry!BuildWrite, Registry!KeepsCuration, RegistryInv,
       BuildsKeepCuration
  <2> QED
    BY <1>1, <2>1, <2>2, <2>3
    DEF Registry!Next, keysVars, Registry!EditVault, Registry!EditCode, Registry!EditEnv,
        Registry!BuildRead, Registry!MakePlan, Registry!ReadVault, Registry!EndPlan,
        Registry!Apply, Registry!Abort
<1>2. (part = "keys" => RegistryInv) /\ [Next]_vars =>
          [part = "keys" => Registry!KeepsCuration]_vars
  BY <1>1 DEF Next, vars
<1> QED
  BY <1>2, RegistryAlways, PTL DEF Spec, CurationKept

-----------------------------------------------------------------------------
\* Connection audit.

\* The report of the last audit is the latest there is, and the audit a cycle has read
\* before its own is what it will find in the report before its date.
AuditInv ==
    /\ Audits!TypeOK
    /\ last.on <= auditDay
    /\ \A d \in 1..AuditDays : d > last.on => auditReport[d] = Nothing
    /\ last.on > 0 => auditReport[last.on] = last.got
    /\ auditCycle # Nothing =>
           /\ auditCycle.today <= auditDay
           /\ auditCycle.before.on \in 1..auditCycle.today - 1 =>
                  /\ auditCycle.before.on \in Audits!Previous(auditCycle.today)
                  /\ auditReport[auditCycle.before.on] = auditCycle.before.got

LEMMA AuditInitially == Audits!Init => AuditInv
<1> SUFFICES ASSUME Audits!Init PROVE AuditInv
  OBVIOUS
<1> USE DEF Audits!Init
<1>1. last \in [on : 0..AuditDays, got : Audits!Statuses] /\ last.on = 0
  BY ServicesAssumption DEF Audits!Statuses, Audits!Marks
<1>2. Audits!TypeOK
  BY <1>1, ServicesAssumption DEF Audits!TypeOK
<1> QED
  BY <1>1, <1>2, ServicesAssumption DEF AuditInv

\* What an audit's report is of its day only.
LEMMA AuditWrites ==
    ASSUME AuditInv, NEW got \in Audits!Statuses, Audits!Audit(got)
    PROVE  /\ audits' \in 0..MaxAudits
           /\ last' = [on |-> auditDay, got |-> got]
           /\ last' \in [on : 0..AuditDays, got : Audits!Statuses]
           /\ auditReport' \in [1..AuditDays -> Audits!Statuses \cup {Nothing}]
           /\ \A d \in 1..AuditDays :
                  auditReport'[d] = IF d = auditDay THEN got ELSE auditReport[d]
           /\ auditDay \in 1..AuditDays
           /\ UNCHANGED <<auditDay, vaultThere, usable, accepted, alerts, changes>>
BY ServicesAssumption DEF Audits!Audit, AuditInv, Audits!TypeOK

\* The latest report before a date, when the last audit was before that date.
LEMMA LastIsPrevious ==
    ASSUME AuditInv, NEW today \in 1..AuditDays, last.on \in 1..today - 1
    PROVE  last.on \in Audits!Previous(today) /\ auditReport[last.on] = last.got
BY ServicesAssumption DEF AuditInv, Audits!TypeOK, Audits!Previous

LEMMA AuditStep == AuditInv /\ [Audits!Next]_auditVars => AuditInv'
<1> SUFFICES ASSUME AuditInv, [Audits!Next]_auditVars PROVE AuditInv'
  OBVIOUS
<1>0. /\ Audits!TypeOK /\ AuditDays \in Nat \ {0} /\ MaxChanges \in Nat
      /\ auditDay \in 1..AuditDays
  BY ServicesAssumption DEF AuditInv, Audits!TypeOK
<1>1. ASSUME NEW got \in Audits!Statuses, Audits!AuditByHand(got) PROVE AuditInv'
  <2>1. Audits!Audit(got) /\ auditCycle' = auditCycle
    BY <1>1 DEF Audits!AuditByHand
  <2>2. Audits!TypeOK'
    BY <1>0, <2>1, AuditWrites DEF Audits!TypeOK
  <2>3. ASSUME auditCycle # Nothing, auditCycle.before.on \in 1..auditCycle.today - 1
        PROVE  /\ auditCycle.before.on \in Audits!Previous(auditCycle.today)'
               /\ auditReport'[auditCycle.before.on] = auditCycle.before.got
    <3>1. /\ auditCycle.today \in 1..AuditDays /\ auditCycle.today <= auditDay
          /\ auditCycle.before.on \in Audits!Previous(auditCycle.today)
          /\ auditReport[auditCycle.before.on] = auditCycle.before.got
      BY <1>0, <2>3 DEF AuditInv, Audits!TypeOK
    <3>2. \A d \in 1..auditCycle.today - 1 : auditReport'[d] = auditReport[d]
      BY <1>0, <2>1, <3>1, AuditWrites
    <3> QED
      BY <1>0, <2>1, <2>3, <3>1, <3>2 DEF Audits!Previous
  <2>4. /\ last'.on = auditDay' /\ auditDay' = auditDay /\ auditReport'[last'.on] = last'.got
        /\ \A d \in 1..AuditDays : d > last'.on => auditReport'[d] = Nothing
    BY <1>0, <2>1, AuditWrites DEF AuditInv, Audits!TypeOK
  <2>5. auditCycle # Nothing => auditCycle.today <= auditDay
    BY DEF AuditInv
  <2>6. last'.on <= auditDay'
    BY <1>0, <2>4
  <2> QED
    BY <2>1, <2>2, <2>3, <2>4, <2>5, <2>6 DEF AuditInv
<1>2. ASSUME NEW got \in Audits!Statuses, Audits!AuditInCycle(got) PROVE AuditInv'
  <2>1. /\ Audits!Audit(got) /\ auditCycle # Nothing
        /\ auditCycle' = [auditCycle EXCEPT !.got = got, !.before = last]
    BY <1>2 DEF Audits!AuditInCycle
  <2>2. /\ auditCycle.today \in 1..AuditDays /\ auditCycle.today <= auditDay
        /\ auditCycle' \in [today : 1..AuditDays, got : Audits!Statuses \cup {Nothing},
                            before : [on : 0..AuditDays, got : Audits!Statuses]]
        /\ auditCycle'.today = auditCycle.today /\ auditCycle'.before = last
    BY <1>0, <2>1 DEF AuditInv, Audits!TypeOK
  <2>3. Audits!TypeOK'
    BY <1>0, <2>1, <2>2, AuditWrites DEF Audits!TypeOK
  <2>4. ASSUME last.on \in 1..auditCycle.today - 1
        PROVE  /\ last.on \in Audits!Previous(auditCycle.today)'
               /\ auditReport'[last.on] = last.got
    <3>1. last.on \in Audits!Previous(auditCycle.today) /\ auditReport[last.on] = last.got
      BY <2>2, <2>4, LastIsPrevious
    <3>2. \A d \in 1..auditCycle.today - 1 : auditReport'[d] = auditReport[d]
      BY <1>0, <2>1, <2>2, AuditWrites
    <3>3. auditCycle.today' = auditCycle'.today
      OBVIOUS
    <3> QED
      BY <1>0, <2>2, <2>4, <3>1, <3>2, <3>3 DEF Audits!Previous
  <2>5. /\ last'.on = auditDay' /\ auditDay' = auditDay /\ auditReport'[last'.on] = last'.got
        /\ \A d \in 1..AuditDays : d > last'.on => auditReport'[d] = Nothing
    BY <1>0, <2>1, AuditWrites DEF AuditInv, Audits!TypeOK
  <2>6. last'.on <= auditDay'
    BY <1>0, <2>5
  <2> QED
    BY <2>2, <2>3, <2>4, <2>5, <2>6 DEF AuditInv
<1>3. ASSUME Audits!StartCycle PROVE AuditInv'
  <2>1. /\ auditCycle' = [today |-> auditDay, got |-> Nothing, before |-> last]
        /\ UNCHANGED <<auditDay, vaultThere, usable, accepted, auditReport, alerts, last,
                       changes, audits>>
    BY <1>3 DEF Audits!StartCycle
  <2>2. Audits!TypeOK'
    BY <1>0, <2>1 DEF Audits!TypeOK
  <2>3. last.on \in 1..auditDay - 1 =>
            last.on \in Audits!Previous(auditDay) /\ auditReport[last.on] = last.got
    BY <1>0, LastIsPrevious
  <2> QED
    BY <1>0, <2>1, <2>2, <2>3 DEF AuditInv, Audits!Previous
<1>4. ASSUME Audits!Compare PROVE AuditInv'
  <2>1. /\ auditCycle' = Nothing /\ alerts' \subseteq Audited
        /\ UNCHANGED <<auditDay, vaultThere, usable, accepted, auditReport, last, changes,
                       audits>>
    BY <1>4 DEF Audits!Compare
  <2>2. Audits!TypeOK'
    BY <1>0, <2>1 DEF Audits!TypeOK
  <2> QED
    BY <2>1, <2>2 DEF AuditInv
<1>5. ASSUME Audits!NextDay PROVE AuditInv'
  <2>1. /\ auditDay < AuditDays /\ auditDay' = auditDay + 1
        /\ UNCHANGED <<vaultThere, usable, accepted, auditReport, auditCycle, alerts, last,
                       changes, audits>>
    BY <1>5 DEF Audits!NextDay
  <2>2. Audits!TypeOK'
    BY <1>0, <2>1 DEF Audits!TypeOK
  <2> QED
    BY <1>0, <2>1, <2>2 DEF AuditInv, Audits!Previous, Audits!TypeOK
<1>6. ASSUME Audits!Change PROVE AuditInv'
  <2>1. changes' \in 0..MaxChanges
    BY <1>0, <1>6 DEF Audits!Change, Audits!TypeOK
  <2>4. vaultThere' \in BOOLEAN
    BY <1>0, <1>6 DEF Audits!Change, Audits!TypeOK
  <2>5. usable' \subseteq Audits!AllNames /\ accepted' \subseteq Audits!AllNames
    <3>1. usable \subseteq Audits!AllNames /\ accepted \subseteq Audits!AllNames
      BY <1>0 DEF Audits!TypeOK
    <3>2. /\ usable' = usable \/ \E n \in Audits!AllNames :
                                   usable' = (usable \ {n}) \cup ({n} \ usable)
          /\ accepted' = accepted \/ \E n \in Audits!AllNames :
                                       accepted' = (accepted \ {n}) \cup ({n} \ accepted)
      BY <1>6 DEF Audits!Change
    <3> QED
      BY <3>1, <3>2
  <2>2. UNCHANGED <<auditDay, auditReport, auditCycle, alerts, last, audits>>
    BY <1>6 DEF Audits!Change
  <2>3. Audits!TypeOK'
    BY <1>0, <2>1, <2>2, <2>4, <2>5 DEF Audits!TypeOK
  <2> QED
    BY <2>2, <2>3 DEF AuditInv, Audits!Previous
<1>7. ASSUME UNCHANGED auditVars PROVE AuditInv'
  BY <1>7 DEF auditVars, AuditInv, Audits!TypeOK, Audits!Previous
<1> QED
  BY <1>1, <1>2, <1>3, <1>4, <1>5, <1>6, <1>7 DEF Audits!Next

LEMMA AuditAlways == Spec => [](part = "audit" => AuditInv)
<1>1. Init => (part = "audit" => AuditInv)
  BY AuditInitially DEF Init
<1>2. (part = "audit" => AuditInv) /\ [Next]_vars => (part = "audit" => AuditInv)'
  BY AuditStep DEF Next, vars
<1> QED
  BY <1>1, <1>2, PTL DEF Spec

\* For every set of providers: an audit that marks a failure has asked the service with the
\* values of one whole alternative, and it refused them, or there was no vault.
THEOREM FailuresRefused == Spec => FailuresAreRefusals
<1>1. ASSUME NEW p \in Audited, vaultThere, "fail" \in Audits!Reports(p)
      PROVE  (Audits!Names(p) \cap usable) \ accepted # {}
  <2> DEFINE alternatives == Audits!VALIDATORS(p)[2]
             pick == alternatives[CHOOSE i \in Audits!Picks(p) : TRUE]
  <2>1. /\ Audits!Picks(p) # {}
        /\ "fail" \in {Audits!Verdict(Audits!Sort(p), a[1], a[2]) :
                          a \in Audits!Answers(pick \subseteq accepted)}
    BY <1>1 DEF Audits!Reports
  <2>2. pick \subseteq usable /\ pick \subseteq Audits!Names(p)
    BY <2>1 DEF Audits!Picks, Audits!Names
  <2> HIDE DEF pick
  <2>3. ~ pick \subseteq accepted
    <3> SUFFICES ASSUME pick \subseteq accepted PROVE FALSE
      OBVIOUS
    <3>1. PICK a \in {0, 200, 500} \X BOOLEAN :
              Audits!Verdict(Audits!Sort(p), a[1], a[2]) = "fail"
      BY <2>1 DEF Audits!Answers
    <3> QED
      BY <3>1 DEF Audits!Verdict
  <2> QED
    BY <2>2, <2>3
<1>2. ASSUME NEW got \in Audits!Statuses, Audits!Audit(got) PROVE Audits!FailsOnRefusal
  <2>1. last'.got = got /\ \A p \in Audited : got[p] \in Audits!Reports(p)
    BY <1>2 DEF Audits!Audit
  <2> QED
    BY <1>1, <2>1 DEF Audits!FailsOnRefusal
<1>3. ASSUME audits' = audits PROVE Audits!FailsOnRefusal
  BY <1>3 DEF Audits!FailsOnRefusal
<1>4. [Audits!Next]_auditVars => Audits!FailsOnRefusal
  BY <1>2, <1>3 DEF Audits!Next, auditVars, Audits!AuditByHand, Audits!AuditInCycle,
     Audits!StartCycle, Audits!Compare, Audits!NextDay, Audits!Change
<1>5. [Next]_vars => [part = "audit" => Audits!FailsOnRefusal]_vars
  BY <1>4 DEF Next, vars
<1> QED
  BY <1>5, PTL DEF Spec, FailuresAreRefusals

\* However many days went without a report, and if midnight comes while the cycle runs, a
\* provider that the audit before worked with and that is refused now raises an alert.
THEOREM RegressionsSeen == Spec => RegressionsAlerted
<1>1. ASSUME AuditInv, [Audits!Next]_auditVars PROVE Audits!AlertsRegression
  <2>1. ASSUME auditCycle # Nothing, auditCycle' = Nothing, auditCycle.got # Nothing,
               NEW p \in Audited, auditCycle.before.on \in 1..auditCycle.today - 1,
               auditCycle.before.got[p] = "ok", auditCycle.got[p] = "fail"
        PROVE  p \in alerts'
    <3>1. CASE Audits!Compare
      BY <1>1, <2>1, <3>1 DEF Audits!Compare, AuditInv
    <3>2. CASE ~ Audits!Compare
      BY <1>1, <2>1, <3>2 DEF Audits!Next, auditVars, Audits!AuditByHand,
         Audits!AuditInCycle, Audits!StartCycle, Audits!NextDay, Audits!Change
    <3> QED
      BY <3>1, <3>2
  <2> QED
    BY <2>1 DEF Audits!AlertsRegression
<1>2. (part = "audit" => AuditInv) /\ [Next]_vars =>
          [part = "audit" => Audits!AlertsRegression]_vars
  BY <1>1 DEF Next, vars
<1> QED
  BY <1>2, AuditAlways, PTL DEF Spec, RegressionsAlerted
================================================================================
