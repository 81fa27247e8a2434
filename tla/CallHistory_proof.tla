--------------------------- MODULE CallHistory_proof ---------------------------
(***************************************************************************)
(* Theorems about CallHistory: nobody who pages by date misses a line,     *)
(* a page agrees with its total, and a line keeps its owner, for every     *)
(* number of calls, sessions, keys and clients and every size of a page.   *)
(***************************************************************************)
EXTENDS CallHistory, FiniteSetTheorems, TLAPS

\* A session that was ever opened is bound to a key.
SessionInv == \A s \in Sids : status[s] # "absent" => holder[s] \in Keys

\* A call under way acts for a session whose key it has held; a call that is
\* composed has one line, which nobody else has.
CallOk(c) ==
    /\ call[c].pc # "running" => grant[c] = Sessions!NoGrant
    /\ call[c].pc = "running" =>
         /\ grant[c].sid \in Sids /\ status[grant[c].sid] # "absent"
         /\ holder[grant[c].sid] \in call[c].held
    /\ call[c].pc # "insert" => call[c].entry = {}
    /\ call[c].pc = "insert" => \E line : call[c].entry = {line}
    /\ \A line \in call[c].entry : line.id = c /\ line.key \in call[c].held

CallInv == \A c \in Calls : CallOk(c)

\* The lines there are or will be, but for those of calls not over yet.
Composed == lines \cup UNION {call[c].entry : c \in Calls}

\* The clock never gives a stamp twice.
LineInv ==
    /\ IsFiniteSet(lines)
    /\ \A line \in lines : call[line.id].pc = "recorded"
    /\ \A a \in Composed : a.stamp <= composed
    /\ \A a, b \in Composed : a.stamp = b.stamp => a = b

\* What a walk a asks for of the table rows, and what of that precedes a line.
From(rows, a) == {line \in rows : line.key \in a.scope}
Ahead(rows, a, line) == {other \in From(rows, a) : Before(a.order, other, line)}

\* A user reads what is his.
ReaderOk(rows, a) ==
    a.reader \in Users =>
      /\ a.scope \subseteq Readable(a.reader)
      /\ \A line \in a.items : line.key \in Readable(a.reader) /\ line \in rows

\* What was counted is there to select, and a page that is not full is the end.
TotalOk(rows, a) ==
    /\ a.pc = "rows" => a.total <= Cardinality(From(rows, a))
    /\ a.pc = "page" /\ Cardinality(a.items) < PageSize
       => a.total <= a.offset + Cardinality(a.items)

\* Each line still to be shown has at least the lines skipped ahead of it, and
\* once a page is not full there is none.
ProgressOk(rows, a) ==
    /\ a.unseen \subseteq From(rows, a)
    /\ a.order # "status" /\ a.pc \in {"count", "rows"} =>
         \A u \in a.unseen : a.offset <= Cardinality(Ahead(rows, a, u))
    /\ a.order # "status" /\ a.pc = "page" =>
         IF Cardinality(a.items) = PageSize
         THEN \A u \in a.unseen : a.offset + PageSize <= Cardinality(Ahead(rows, a, u))
         ELSE a.unseen = {}

WalkOk(rows, a) == ReaderOk(rows, a) /\ TotalOk(rows, a) /\ ProgressOk(rows, a)

WalkInv == \A w \in Walks : WalkOk(lines, walk[w])

IInv == TypeOK /\ SessionInv /\ CallInv /\ LineInv /\ WalkInv

------------------------------------------------------------------------------
\* Lines of a finite table.
LEMMA FromFinite ==
    ASSUME NEW rows, IsFiniteSet(rows), NEW a, NEW u
    PROVE  /\ IsFiniteSet(From(rows, a)) /\ Cardinality(From(rows, a)) \in Nat
           /\ IsFiniteSet(Ahead(rows, a, u)) /\ Cardinality(Ahead(rows, a, u)) \in Nat
           /\ Ahead(rows, a, u) \subseteq From(rows, a)
<1>1. From(rows, a) \in SUBSET rows /\ Ahead(rows, a, u) \in SUBSET From(rows, a)
  BY DEF From, Ahead
<1>2. IsFiniteSet(From(rows, a))
  BY <1>1, FS_Subset
<1>3. IsFiniteSet(Ahead(rows, a, u))
  BY <1>1, <1>2, FS_Subset
<1> QED BY <1>1, <1>2, <1>3, FS_CardinalityType

\* What a walk has established is not undone by more lines.
LEMMA MoreLinesKeepWalkOk ==
    ASSUME NEW rows, NEW more, rows \subseteq more, IsFiniteSet(more),
           NEW a \in Walk, WalkOk(rows, a)
    PROVE  WalkOk(more, a)
<1>1. IsFiniteSet(rows)
  BY FS_Subset
<1>2. /\ From(rows, a) \in SUBSET From(more, a)
      /\ \A u : Ahead(rows, a, u) \in SUBSET Ahead(more, a, u)
  BY DEF From, Ahead
<1>3. /\ Cardinality(From(rows, a)) \in Nat /\ Cardinality(From(more, a)) \in Nat
      /\ Cardinality(From(rows, a)) <= Cardinality(From(more, a))
  BY <1>1, <1>2, FromFinite, FS_Subset
<1>4. ASSUME NEW u
      PROVE  /\ Cardinality(Ahead(rows, a, u)) \in Nat /\ Cardinality(Ahead(more, a, u)) \in Nat
             /\ Cardinality(Ahead(rows, a, u)) <= Cardinality(Ahead(more, a, u))
  BY <1>1, <1>2, FromFinite, FS_Subset
<1>5. a.total \in Nat /\ a.offset \in Nat /\ PageSize \in Nat
  BY HistoryAssumption DEF Walk
<1>6. ReaderOk(more, a)
  BY DEF WalkOk, ReaderOk
<1>7. TotalOk(more, a)
  BY <1>3, <1>5 DEF WalkOk, TotalOk
<1>8. ProgressOk(more, a)
  BY <1>2, <1>4, <1>5 DEF WalkOk, ProgressOk
<1> QED BY <1>6, <1>7, <1>8 DEF WalkOk

\* Where a line is that has at least offset others ahead of it: on the page, or
\* behind a full page.
LEMMA PageShowsNext ==
    ASSUME NEW rows, IsFiniteSet(rows), NEW a \in Walk, a.order # "status",
           rows \subseteq Line, \A b, d \in rows : b.stamp = d.stamp => b = d,
           NEW page \in SUBSET From(rows, a),
           IsPage(page, From(rows, a), a.order, a.offset),
           NEW u \in From(rows, a), u \notin page,
           a.offset <= Cardinality(Ahead(rows, a, u))
    PROVE  /\ Cardinality(page) = PageSize
           /\ a.offset + PageSize <= Cardinality(Ahead(rows, a, u))
<1> DEFINE from == From(rows, a)
<1>1. PICK skipped \in SUBSET (from \ page) :
        LET rest == from \ (skipped \cup page) IN
        /\ \A b \in skipped, d \in page \cup rest : ~Before(a.order, d, b)
        /\ \A b \in page, d \in rest : ~Before(a.order, d, b)
        /\ IF page \cup rest = {} THEN Cardinality(skipped) <= a.offset
                                  ELSE Cardinality(skipped) = a.offset
        /\ IF rest = {} THEN Cardinality(page) <= PageSize
                        ELSE Cardinality(page) = PageSize
  BY DEF IsPage
<1> DEFINE rest == from \ (skipped \cup page)
<1>2. /\ IsFiniteSet(from) /\ IsFiniteSet(skipped) /\ IsFiniteSet(page)
      /\ IsFiniteSet(Ahead(rows, a, u)) /\ Cardinality(Ahead(rows, a, u)) \in Nat
      /\ Cardinality(skipped) \in Nat /\ a.offset \in Nat
  <2>1. IsFiniteSet(from) /\ IsFiniteSet(Ahead(rows, a, u))
    BY FromFinite
  <2>2. IsFiniteSet(skipped) /\ IsFiniteSet(page)
    BY <2>1, FS_Subset
  <2> QED BY <2>1, <2>2, FS_CardinalityType DEF Walk
<1>3. Cardinality(skipped) <= a.offset
  BY <1>1, <1>2
<1>4. \A b, d \in from : b = d \/ Before(a.order, b, d) \/ Before(a.order, d, b)
  <2>1. \A b \in from : b \in rows /\ b.stamp \in Nat
    BY DEF From, Line
  <2>2. a.order \in {"newest", "oldest"}
    BY DEF Walk, Orders
  <2> QED BY <2>1, <2>2 DEF Before
<1>5. u \notin skipped
  <2> SUFFICES ASSUME u \in skipped PROVE FALSE
    OBVIOUS
  <2>1. Ahead(rows, a, u) \in SUBSET (skipped \ {u})
    <3>1. ~Before(a.order, u, u)
      <4>1. a.order \in {"newest", "oldest"} /\ u.stamp \in Nat
        BY DEF Walk, Orders, From, Line
      <4> QED BY <4>1 DEF Before
    <3>2. ASSUME NEW b \in Ahead(rows, a, u) PROVE b \in skipped
      BY <1>1 DEF Ahead
    <3> QED BY <3>1, <3>2 DEF Ahead
  <2>2. /\ IsFiniteSet(skipped \ {u})
        /\ Cardinality(skipped \ {u}) = Cardinality(skipped) - 1
    BY <1>2, FS_RemoveElement
  <2>3. Cardinality(Ahead(rows, a, u)) <= Cardinality(skipped \ {u})
    BY <2>1, <2>2, FS_Subset
  <2> QED BY <1>2, <1>3, <2>2, <2>3
<1>6. u \in rest
  BY <1>5
<1>7. Cardinality(page) = PageSize /\ Cardinality(skipped) = a.offset
  BY <1>1, <1>6
<1>8. skipped \cup page \in SUBSET Ahead(rows, a, u)
  <2>1. \A b \in skipped \cup page : b \in from /\ b # u /\ ~Before(a.order, u, b)
    BY <1>1, <1>5, <1>6
  <2> QED BY <1>4, <2>1 DEF Ahead
<1>9. Cardinality(skipped \cup page) = Cardinality(skipped) + Cardinality(page)
  <2>1. skipped \cap page = {}
    OBVIOUS
  <2>2. Cardinality(skipped \cap page) = 0
    BY <2>1, FS_EmptySet
  <2>3. Cardinality(skipped \cup page)
          = Cardinality(skipped) + Cardinality(page) - Cardinality(skipped \cap page)
    BY <1>2, FS_Union
  <2>4. Cardinality(skipped) \in Nat /\ Cardinality(page) \in Nat
    BY <1>2, FS_CardinalityType
  <2> QED BY <2>2, <2>3, <2>4
<1>10. Cardinality(skipped \cup page) <= Cardinality(Ahead(rows, a, u))
  BY <1>2, <1>8, FS_Subset
<1> QED BY <1>7, <1>9, <1>10

\* A page that is not full ends the listing.
LEMMA ShortPageIsTheEnd ==
    ASSUME NEW from, IsFiniteSet(from), NEW page \in SUBSET from, NEW order, NEW offset \in Nat,
           IsPage(page, from, order, offset), Cardinality(page) < PageSize
    PROVE  Cardinality(from) <= offset + Cardinality(page)
<1>1. PICK skipped \in SUBSET (from \ page) :
        LET rest == from \ (skipped \cup page) IN
        /\ IF page \cup rest = {} THEN Cardinality(skipped) <= offset
                                  ELSE Cardinality(skipped) = offset
        /\ IF rest = {} THEN Cardinality(page) <= PageSize
                        ELSE Cardinality(page) = PageSize
  BY DEF IsPage
<1>2. IsFiniteSet(skipped) /\ IsFiniteSet(page)
  BY FS_Subset
<1>3. Cardinality(skipped) \in Nat /\ Cardinality(page) \in Nat /\ Cardinality({}) = 0
  BY <1>2, FS_CardinalityType, FS_EmptySet
<1>4. from = skipped \cup page
  <2>1. Cardinality(page) # PageSize
    BY <1>3, HistoryAssumption
  <2> QED BY <1>1, <2>1
<1>5. Cardinality(skipped) <= offset
  BY <1>1, <1>3
<1>6. Cardinality(skipped \cap page) = 0
  <2>1. skipped \cap page = {}
    OBVIOUS
  <2> QED BY <2>1, FS_EmptySet
<1>7. Cardinality(skipped \cup page)
        = Cardinality(skipped) + Cardinality(page) - Cardinality(skipped \cap page)
  BY <1>2, FS_Union
<1>8. Cardinality(skipped \cup page) = Cardinality(skipped) + Cardinality(page)
  BY <1>3, <1>6, <1>7
<1> QED BY <1>3, <1>4, <1>5, <1>8

------------------------------------------------------------------------------
LEMMA NoWalkIsOk ==
    ASSUME NEW rows, IsFiniteSet(rows)
    PROVE  NoWalk \in Walk /\ WalkOk(rows, NoWalk)
<1>1. NoWalk \in Walk
  BY DEF NoWalk, Walk, Orders
<1>2. NoWalk.pc = "idle" /\ NoWalk.reader = Admin /\ NoWalk.unseen = {}
  BY DEF NoWalk
<1> QED BY <1>1, <1>2, HistoryAssumption DEF WalkOk, ReaderOk, TotalOk, ProgressOk

LEMMA InitEstablishesIInv == Init => IInv
<1> SUFFICES ASSUME Init PROVE IInv
  OBVIOUS
<1> USE DEF Init, Sessions!LInit, Sessions!NoGrant, NoCall
<1>1. IsFiniteSet(lines) /\ Composed = {}
  BY FS_EmptySet DEF Composed
<1>2. \A w \in Walks : walk[w] \in Walk /\ WalkOk(lines, walk[w])
  BY <1>1, NoWalkIsOk
<1>3. TypeOK
  BY <1>2 DEF TypeOK, Call
<1>4. SessionInv /\ CallInv /\ LineInv
  BY <1>1 DEF SessionInv, CallInv, CallOk, LineInv
<1> QED BY <1>2, <1>3, <1>4 DEF IInv, WalkInv

\* Of the step of a session or of a call, the walks see at most more lines.
LEMMA WalksSeeMoreLines ==
    ASSUME IInv, walk' = walk, lines \subseteq lines', IsFiniteSet(lines')
    PROVE  WalkInv' /\ walk' \in [Walks -> Walk]
<1>1. \A w \in Walks : walk[w] \in Walk /\ WalkOk(lines, walk[w])
  BY DEF IInv, TypeOK, WalkInv
<1>2. \A w \in Walks : WalkOk(lines', walk[w])
  BY <1>1, MoreLinesKeepWalkOk
<1> QED BY <1>2 DEF WalkInv, IInv, TypeOK

LEMMA OpenKeepsIInv ==
    ASSUME IInv, NEW s \in Sids, NEW k \in Keys, Open(s, k)
    PROVE  IInv'
<1> USE DEF IInv
<1>1. /\ status' = [status EXCEPT ![s] = "open"] /\ holder' = [holder EXCEPT ![s] = k]
      /\ UNCHANGED <<grant, composed, lines, walk>>
      /\ status \in [Sids -> {"absent", "open", "closed"}]
      /\ holder \in [Sids -> Keys \cup {NoKey}]
      /\ call \in [Calls -> Call]
  BY DEF Open, Sessions!LOpen, TypeOK
<1>2. ASSUME NEW c \in Calls
      PROVE  /\ call'[c] \in Call /\ call'[c].pc = call[c].pc /\ call'[c].entry = call[c].entry
             /\ call[c].held \subseteq call'[c].held
             /\ grant[c].sid = s => k \in call'[c].held
  BY <1>1 DEF Open, Call
<1>3. call' \in [Calls -> Call]
  <2>1. call' = [c \in Calls |-> call'[c]]
    BY DEF Open
  <2> QED BY <1>2, <2>1
<1>4. TypeOK'
  BY <1>1, <1>3 DEF TypeOK
<1>5. SessionInv'
  BY <1>1 DEF SessionInv
<1>6. CallInv'
  <2> SUFFICES ASSUME NEW c \in Calls PROVE CallOk(c)'
    BY DEF CallInv
  <2>1. CallOk(c)
    BY DEF CallInv
  <2> QED BY <1>1, <1>2, <2>1 DEF CallOk, Sessions!NoGrant
<1>7. LineInv'
  <2>1. Composed' = Composed
    BY <1>1, <1>2 DEF Composed
  <2>2. \A line \in lines : line.id \in Calls
    BY DEF TypeOK, Line
  <2> QED BY <1>1, <1>2, <2>1, <2>2 DEF LineInv
<1>8. WalkInv'
  BY <1>1, WalksSeeMoreLines DEF LineInv
<1> QED BY <1>4, <1>5, <1>6, <1>7, <1>8

LEMMA CloseKeepsIInv ==
    ASSUME IInv, NEW s \in Sids, Close(s)
    PROVE  IInv'
<1> USE DEF IInv
<1>1. /\ status' = [status EXCEPT ![s] = "closed"] /\ status[s] = "open"
      /\ UNCHANGED <<holder, grant, call, composed, lines, walk>>
      /\ status \in [Sids -> {"absent", "open", "closed"}]
  BY DEF Close, Sessions!LClose, TypeOK
<1>2. TypeOK' /\ SessionInv' /\ LineInv'
  BY <1>1 DEF TypeOK, SessionInv, LineInv, Composed
<1>3. CallInv'
  BY <1>1 DEF CallInv, CallOk, Sessions!NoGrant
<1>4. WalkInv'
  BY <1>1, WalksSeeMoreLines DEF LineInv
<1> QED BY <1>2, <1>3, <1>4

\* The step of one call c, whose record becomes record.
LEMMA CallStep ==
    ASSUME IInv, NEW c \in Calls, NEW record \in Call,
           call' = [call EXCEPT ![c] = record],
           call[c].pc # "recorded", lines \subseteq lines', lines' \in SUBSET Line,
           IsFiniteSet(lines'),
           \A line \in lines' : line \in lines \/ (line.id = c /\ record.pc = "recorded"),
           composed' \in Nat, composed <= composed',
           grant' \in [Calls -> [sid: Sids \cup {NoSid}, key: Keys \cup {NoKey}]],
           \A d \in Calls \ {c} : grant'[d] = grant[d],
           CallOk(c)',
           \A line \in Composed' \ Composed : composed < line.stamp /\ line.stamp <= composed',
           \A a, b \in Composed' \ Composed : a = b,
           UNCHANGED <<status, holder, walk>>
    PROVE  IInv'
<1> USE DEF IInv
<1>1. call \in [Calls -> Call] /\ composed \in Nat
  BY DEF TypeOK
<1>2. TypeOK'
  BY <1>1 DEF TypeOK
<1>3. SessionInv'
  BY DEF SessionInv
<1>4. CallInv'
  <2> SUFFICES ASSUME NEW d \in Calls, d # c PROVE CallOk(d)'
    BY DEF CallInv
  <2>1. CallOk(d) /\ call'[d] = call[d]
    BY <1>1 DEF CallInv
  <2> QED BY <2>1 DEF CallOk, Sessions!NoGrant
<1>5. LineInv'
  <2>1. \A line \in lines' : call'[line.id].pc = "recorded"
    <3>1. \A line \in lines : line.id \in Calls /\ line.id # c
      BY DEF LineInv, TypeOK, Line
    <3> QED BY <1>1, <3>1 DEF LineInv
  <2>2. \A a \in Composed' : a.stamp \in Nat
    BY <1>2 DEF TypeOK, Call, Line, Composed
  <2>3. \A a \in Composed' : a.stamp <= composed'
    BY <1>1, <2>2 DEF LineInv
  <2>4. \A a, b \in Composed' : a.stamp = b.stamp => a = b
    BY <1>1, <2>2 DEF LineInv
  <2> QED BY <2>1, <2>3, <2>4 DEF LineInv
<1>6. WalkInv'
  BY WalksSeeMoreLines
<1> QED BY <1>2, <1>3, <1>4, <1>5, <1>6

\* The same of a call that composes and inserts nothing.
LEMMA QuietCallStep ==
    ASSUME IInv, NEW c \in Calls, NEW record \in Call,
           call' = [call EXCEPT ![c] = record],
           call[c].pc # "recorded", record.entry = {}, CallOk(c)',
           grant' \in [Calls -> [sid: Sids \cup {NoSid}, key: Keys \cup {NoKey}]],
           \A d \in Calls \ {c} : grant'[d] = grant[d],
           UNCHANGED <<status, holder, composed, lines, walk>>
    PROVE  IInv'
<1>1. /\ call \in [Calls -> Call] /\ lines \in SUBSET Line /\ composed \in Nat
      /\ IsFiniteSet(lines)
  BY DEF IInv, TypeOK, LineInv
<1>2. Composed' \subseteq Composed
  BY <1>1 DEF Composed
<1>3. /\ \A line \in Composed' \ Composed : composed < line.stamp /\ line.stamp <= composed'
      /\ \A a, b \in Composed' \ Composed : a = b
  BY <1>2
<1>4. /\ lines \subseteq lines' /\ lines' \in SUBSET Line /\ IsFiniteSet(lines')
      /\ \A line \in lines' : line \in lines \/ (line.id = c /\ record.pc = "recorded")
      /\ composed' \in Nat /\ composed <= composed'
  BY <1>1
<1> QED BY <1>3, <1>4, CallStep

LEMMA StartKeepsIInv ==
    ASSUME IInv, NEW c \in Calls, NEW s \in Sids, Start(c, s)
    PROVE  IInv'
<1> DEFINE record == [NoCall EXCEPT !.pc = "running", !.held = {holder[s]}]
<1>1. /\ status[s] = "open" /\ holder[s] \in Keys /\ call[c].pc = "idle"
      /\ call \in [Calls -> Call]
      /\ grant \in [Calls -> [sid: Sids \cup {NoSid}, key: Keys \cup {NoKey}]]
      /\ grant' = [grant EXCEPT ![c] = [sid |-> s, key |-> holder[s]]]
      /\ call' = [call EXCEPT ![c] = record]
      /\ UNCHANGED <<status, holder, composed, lines, walk>>
  BY DEF IInv, TypeOK, SessionInv, Start, Sessions!LGrant
<1>2. /\ record \in Call /\ record.pc = "running" /\ record.held = {holder[s]}
      /\ record.entry = {}
  BY <1>1 DEF NoCall, Call
<1> HIDE DEF record
<1>3. CallOk(c)'
  BY <1>1, <1>2 DEF CallOk
<1>4. /\ grant' \in [Calls -> [sid: Sids \cup {NoSid}, key: Keys \cup {NoKey}]]
      /\ \A d \in Calls \ {c} : grant'[d] = grant[d]
  BY <1>1
<1>5. call[c].pc # "recorded"
  BY <1>1
<1> QED BY <1>1, <1>2, <1>3, <1>4, <1>5, QuietCallStep

\* A call that is over leaves nothing behind but its line.
LEMMA CallEnds ==
    ASSUME IInv, NEW c \in Calls, NEW pc \in {"dropped", "recorded"}
    PROVE  LET record == [NoCall EXCEPT !.pc = pc] IN
           record \in Call /\ record.pc = pc /\ record.entry = {}
BY DEF NoCall, Call

\* A released grant.
LEMMA ReleasedGrant ==
    ASSUME IInv, NEW c \in Calls, grant' = [grant EXCEPT ![c] = Sessions!NoGrant]
    PROVE  /\ grant' \in [Calls -> [sid: Sids \cup {NoSid}, key: Keys \cup {NoKey}]]
           /\ grant'[c] = Sessions!NoGrant
           /\ \A d \in Calls \ {c} : grant'[d] = grant[d]
BY DEF IInv, TypeOK, Sessions!NoGrant

LEMMA ComposeKeepsIInv ==
    ASSUME IInv, NEW c \in Calls, NEW blocked \in BOOLEAN, Compose(c, blocked)
    PROVE  IInv'
<1> DEFINE s == grant[c].sid
           line == [id |-> c, sid |-> s, key |-> holder[s], stamp |-> composed + 1,
                    blocked |-> blocked]
<1>1. /\ call[c].pc = "running" /\ CallOk(c) /\ call \in [Calls -> Call]
      /\ composed \in Nat /\ lines \in SUBSET Line /\ IsFiniteSet(lines)
      /\ UNCHANGED <<status, holder, lines, walk>>
  BY DEF IInv, TypeOK, CallInv, LineInv, Compose, Sessions!LRelease
<1>2. grant' = [grant EXCEPT ![c] = Sessions!NoGrant]
  BY DEF Compose, Sessions!LRelease
<1>3. s \in Sids /\ holder[s] \in Keys /\ holder[s] \in call[c].held
  BY <1>1 DEF CallOk, IInv, SessionInv
<1>4. CASE status[s] = "open"
  <2> DEFINE record == [call[c] EXCEPT !.pc = "insert", !.entry = {line}]
  <2>1. call' = [call EXCEPT ![c] = record] /\ composed' = composed + 1
    BY <1>1, <1>4 DEF Compose
  <2>2. line \in Line
    BY <1>1, <1>3 DEF Line
  <2>3. line.id = c /\ line.key = holder[s] /\ line.stamp = composed + 1
    OBVIOUS
  <2> HIDE DEF line
  <2>4. /\ record \in Call /\ record.pc = "insert" /\ record.entry = {line}
        /\ record.held = call[c].held
    BY <1>1, <2>2 DEF Call
  <2> HIDE DEF record
  <2>5. Composed' \subseteq Composed \cup {line}
    BY <1>1, <2>1, <2>4 DEF Composed
  <2>6. CallOk(c)'
    BY <1>1, <1>2, <1>3, <2>1, <2>3, <2>4, ReleasedGrant DEF CallOk
  <2>7. /\ grant' \in [Calls -> [sid: Sids \cup {NoSid}, key: Keys \cup {NoKey}]]
        /\ \A d \in Calls \ {c} : grant'[d] = grant[d]
    BY <1>2, ReleasedGrant
  <2>8. /\ \A new \in Composed' \ Composed : composed < new.stamp /\ new.stamp <= composed'
        /\ \A a, b \in Composed' \ Composed : a = b
    BY <1>1, <2>1, <2>3, <2>5
  <2>9. /\ lines \subseteq lines' /\ lines' \in SUBSET Line /\ IsFiniteSet(lines')
        /\ \A old \in lines' : old \in lines \/ (old.id = c /\ record.pc = "recorded")
        /\ composed' \in Nat /\ composed <= composed' /\ call[c].pc # "recorded"
    BY <1>1, <2>1
  <2> QED BY <1>1, <2>1, <2>4, <2>6, <2>7, <2>8, <2>9, CallStep
<1>5. CASE status[s] # "open"
  <2> DEFINE record == [NoCall EXCEPT !.pc = "dropped"]
  <2>1. call' = [call EXCEPT ![c] = record] /\ composed' = composed
    BY <1>1, <1>5 DEF Compose
  <2>2. record \in Call /\ record.pc = "dropped" /\ record.entry = {}
    BY CallEnds
  <2> HIDE DEF record
  <2>3. CallOk(c)'
    BY <1>1, <1>2, <2>1, <2>2, ReleasedGrant DEF CallOk
  <2>4. call[c].pc # "recorded"
    BY <1>1
  <2>5. /\ grant' \in [Calls -> [sid: Sids \cup {NoSid}, key: Keys \cup {NoKey}]]
        /\ \A d \in Calls \ {c} : grant'[d] = grant[d]
    BY <1>2, ReleasedGrant
  <2> QED BY <1>1, <2>1, <2>2, <2>3, <2>4, <2>5, QuietCallStep
<1> QED BY <1>4, <1>5

LEMMA InsertKeepsIInv ==
    ASSUME IInv, NEW c \in Calls, Insert(c)
    PROVE  IInv'
<1> DEFINE record == [NoCall EXCEPT !.pc = "recorded"]
<1>1. /\ call[c].pc = "insert" /\ CallOk(c) /\ call \in [Calls -> Call]
      /\ composed \in Nat /\ lines \in SUBSET Line /\ IsFiniteSet(lines)
      /\ grant \in [Calls -> [sid: Sids \cup {NoSid}, key: Keys \cup {NoKey}]]
      /\ lines' = lines \cup call[c].entry /\ call' = [call EXCEPT ![c] = record]
      /\ UNCHANGED <<status, holder, grant, composed, walk>>
  BY DEF IInv, TypeOK, CallInv, LineInv, Insert
<1>2. record \in Call /\ record.pc = "recorded" /\ record.entry = {}
  BY CallEnds
<1> HIDE DEF record
<1>3. PICK line : call[c].entry = {line} /\ line.id = c
  BY <1>1 DEF CallOk
<1>4. lines' \in SUBSET Line /\ IsFiniteSet(lines')
  <2>1. call[c].entry \subseteq Line
    BY <1>1 DEF Call
  <2>2. IsFiniteSet(lines \cup {line})
    BY <1>1, FS_AddElement
  <2> QED BY <1>1, <1>3, <2>1, <2>2
<1>5. Composed' \subseteq Composed
  BY <1>1, <1>2 DEF Composed
<1>6. CallOk(c)'
  BY <1>1, <1>2 DEF CallOk, Sessions!NoGrant
<1>7. /\ \A new \in Composed' \ Composed : composed < new.stamp /\ new.stamp <= composed'
      /\ \A a, b \in Composed' \ Composed : a = b
  BY <1>5
<1>8. /\ lines \subseteq lines' /\ call[c].pc # "recorded"
      /\ \A new \in lines' : new \in lines \/ (new.id = c /\ record.pc = "recorded")
      /\ composed' \in Nat /\ composed <= composed'
      /\ grant' \in [Calls -> [sid: Sids \cup {NoSid}, key: Keys \cup {NoKey}]]
      /\ \A d \in Calls \ {c} : grant'[d] = grant[d]
  BY <1>1, <1>2, <1>3
<1> QED BY <1>1, <1>2, <1>4, <1>6, <1>7, <1>8, CallStep

LEMMA DropKeepsIInv ==
    ASSUME IInv, NEW c \in Calls, Drop(c)
    PROVE  IInv'
<1> DEFINE record == [NoCall EXCEPT !.pc = "dropped"]
<1>1. /\ call[c].pc \in {"running", "insert"} /\ call \in [Calls -> Call]
      /\ composed \in Nat /\ lines \in SUBSET Line /\ IsFiniteSet(lines)
      /\ call' = [call EXCEPT ![c] = record]
      /\ grant' = [grant EXCEPT ![c] = Sessions!NoGrant]
      /\ UNCHANGED <<status, holder, composed, lines, walk>>
  BY DEF IInv, TypeOK, LineInv, Drop
<1>2. record \in Call /\ record.pc = "dropped" /\ record.entry = {}
  BY CallEnds
<1> HIDE DEF record
<1>3. CallOk(c)'
  BY <1>1, <1>2, ReleasedGrant DEF CallOk
<1>4. call[c].pc # "recorded"
  BY <1>1
<1>5. /\ grant' \in [Calls -> [sid: Sids \cup {NoSid}, key: Keys \cup {NoKey}]]
      /\ \A d \in Calls \ {c} : grant'[d] = grant[d]
  BY <1>1, ReleasedGrant
<1> QED BY <1>1, <1>2, <1>3, <1>4, <1>5, QuietCallStep

------------------------------------------------------------------------------
\* The step of one client, whose record becomes record.
LEMMA WalkStep ==
    ASSUME IInv, NEW w \in Walks, NEW record \in Walk, WalkOk(lines, record),
           walk' = [walk EXCEPT ![w] = record],
           UNCHANGED <<status, holder, grant, call, composed, lines>>
    PROVE  IInv'
<1>1. TypeOK' /\ WalkInv'
  BY DEF IInv, TypeOK, WalkInv
<1>2. SessionInv'
  BY DEF IInv, SessionInv
<1>3. CallInv'
  BY DEF IInv, CallInv, CallOk, Sessions!NoGrant
<1>4. LineInv'
  <2>1. Composed' = Composed
    BY DEF Composed
  <2> QED BY <2>1 DEF IInv, LineInv
<1> QED BY <1>1, <1>2, <1>3, <1>4 DEF IInv

\* A walk whose scope, order, offset and lines to come are those of another.
LEMMA SameListing ==
    ASSUME NEW rows, NEW a, NEW b, b.scope = a.scope, b.order = a.order
    PROVE  From(rows, b) = From(rows, a) /\ \A u : Ahead(rows, b, u) = Ahead(rows, a, u)
BY DEF From, Ahead

LEMMA EnterKeepsIInv ==
    ASSUME IInv, NEW w \in Walks, NEW reader \in Users \cup {Admin},
           NEW scope \in SUBSET Keys, NEW order \in Orders, NEW offset \in Offsets,
           Enter(w, reader, scope, order, offset)
    PROVE  IInv'
<1> DEFINE pc == IF scope = {} THEN "page" ELSE "count"
           unseen == IF offset = 0 THEN Matching(scope) ELSE {}
           record == [NoWalk EXCEPT !.pc = pc, !.reader = reader, !.scope = scope,
                        !.order = order, !.offset = offset, !.unseen = unseen]
<1>1. /\ walk' = [walk EXCEPT ![w] = record]
      /\ UNCHANGED <<status, holder, grant, call, composed, lines>>
      /\ reader \in Users => scope = Readable(reader)
  BY HistoryAssumption DEF Enter
<1>2. lines \in SUBSET Line /\ IsFiniteSet(lines) /\ offset \in Nat
  BY HistoryAssumption DEF IInv, TypeOK, LineInv
<1>3. /\ unseen \in SUBSET Line /\ unseen \subseteq Matching(scope)
      /\ offset # 0 => unseen = {}
  BY <1>2 DEF Matching
<1>4. pc \in {"page", "count"} /\ (pc = "page" <=> scope = {})
  OBVIOUS
<1> HIDE DEF pc, unseen
<1>5. /\ record.pc = pc /\ record.reader = reader /\ record.scope = scope
      /\ record.order = order /\ record.unseen = unseen /\ record.total = 0
      /\ record.offset = offset /\ record.items = {}
  BY DEF NoWalk
<1>6. record \in Walk
  BY <1>2, <1>3, <1>4 DEF NoWalk, Walk
<1> HIDE DEF record
<1>7. From(lines, record) = Matching(scope)
  BY <1>5 DEF From, Matching
<1>8. ReaderOk(lines, record)
  BY <1>1, <1>5 DEF ReaderOk
<1>9. TotalOk(lines, record)
  <2>1. record.items = {} /\ Cardinality({}) = 0
    BY <1>5, FS_EmptySet
  <2> QED BY <1>2, <1>4, <1>5, <2>1 DEF TotalOk
<1>10. ProgressOk(lines, record)
  <2>1. \A u : Cardinality(Ahead(lines, record, u)) \in Nat
    BY <1>2, FromFinite
  <2>2. pc = "page" => unseen = {}
    BY <1>3, <1>4 DEF Matching
  <2>3. \A u \in unseen : offset <= Cardinality(Ahead(lines, record, u))
    BY <1>2, <1>3, <2>1
  <2> QED BY <1>3, <1>4, <1>5, <1>7, <2>2, <2>3 DEF ProgressOk
<1> QED BY <1>1, <1>6, <1>8, <1>9, <1>10, WalkStep DEF WalkOk

LEMMA CountKeepsIInv ==
    ASSUME IInv, NEW w \in Walks, Count(w)
    PROVE  IInv'
<1> DEFINE a == walk[w]
           total == Cardinality(Matching(a.scope))
           record == [a EXCEPT !.pc = "rows", !.total = total]
<1>1. /\ walk' = [walk EXCEPT ![w] = record] /\ a.pc = "count"
      /\ UNCHANGED <<status, holder, grant, call, composed, lines>>
  BY DEF Count
<1>2. a \in Walk /\ WalkOk(lines, a) /\ IsFiniteSet(lines)
  BY DEF IInv, TypeOK, LineInv, WalkInv
<1>3. From(lines, a) = Matching(a.scope)
  BY DEF From, Matching
<1>4. total \in Nat
  BY <1>2, <1>3, FromFinite
<1> HIDE DEF a, total
<1>5. /\ record \in Walk /\ record.pc = "rows" /\ record.total = total
      /\ record.reader = a.reader /\ record.scope = a.scope /\ record.order = a.order
      /\ record.offset = a.offset /\ record.items = a.items /\ record.unseen = a.unseen
  BY <1>2, <1>4 DEF Walk
<1> HIDE DEF record
<1>6. /\ From(lines, record) = From(lines, a)
      /\ \A u : Ahead(lines, record, u) = Ahead(lines, a, u)
  BY <1>5, SameListing
<1>7. ReaderOk(lines, record)
  BY <1>2, <1>5 DEF WalkOk, ReaderOk
<1>8. TotalOk(lines, record)
  BY <1>3, <1>4, <1>5, <1>6 DEF TotalOk, total
<1>9. ProgressOk(lines, record)
  BY <1>1, <1>2, <1>5, <1>6 DEF WalkOk, ProgressOk
<1> QED BY <1>1, <1>5, <1>7, <1>8, <1>9, WalkStep DEF WalkOk

LEMMA RowsKeepsIInv ==
    ASSUME IInv, NEW w \in Walks, Rows(w)
    PROVE  IInv'
<1> DEFINE a == walk[w]
<1>1. PICK page \in SUBSET Matching(a.scope) :
        /\ a.pc = "rows"
        /\ IsPage(page, Matching(a.scope), a.order, a.offset)
        /\ walk' = [walk EXCEPT ![w].pc = "page", ![w].items = page, ![w].unseen = @ \ page]
        /\ UNCHANGED <<status, holder, grant, call, composed, lines>>
  BY DEF Rows
<1> DEFINE record == [a EXCEPT !.pc = "page", !.items = page, !.unseen = @ \ page]
<1>2. walk' = [walk EXCEPT ![w] = record]
  BY <1>1 DEF IInv, TypeOK
<1>3. /\ a \in Walk /\ WalkOk(lines, a) /\ IsFiniteSet(lines) /\ lines \in SUBSET Line
      /\ \A b, d \in lines : b.stamp = d.stamp => b = d
  BY DEF IInv, TypeOK, LineInv, WalkInv, Composed
<1>4. From(lines, a) = Matching(a.scope)
  BY DEF From, Matching
<1>5. page \in SUBSET From(lines, a) /\ IsPage(page, From(lines, a), a.order, a.offset)
  BY <1>1, <1>4
<1>6. a.pc = "rows"
  BY <1>1
<1> HIDE DEF a
<1>7. /\ record.pc = "page" /\ record.items = page
      /\ record.total = a.total /\ record.unseen = a.unseen \ page
      /\ record.reader = a.reader /\ record.scope = a.scope
      /\ record.order = a.order /\ record.offset = a.offset
  BY <1>3 DEF Walk
<1>8. record \in Walk
  <2>1. page \in SUBSET Line
    BY <1>3, <1>5 DEF From
  <2> QED BY <1>3, <2>1 DEF Walk
<1> HIDE DEF record
<1>9. /\ From(lines, record) = From(lines, a)
      /\ \A u : Ahead(lines, record, u) = Ahead(lines, a, u)
  BY <1>7, SameListing
<1>10. ReaderOk(lines, record)
  BY <1>3, <1>5, <1>7 DEF WalkOk, ReaderOk, From
<1>11. TotalOk(lines, record)
  <2>1. a.offset \in Nat /\ a.total \in Nat /\ IsFiniteSet(From(lines, a))
    BY <1>3, FromFinite DEF Walk
  <2>2. Cardinality(page) \in Nat /\ Cardinality(From(lines, a)) \in Nat
    BY <1>5, <2>1, FS_Subset, FS_CardinalityType
  <2>3. a.total <= Cardinality(From(lines, a))
    BY <1>3, <1>6 DEF WalkOk, TotalOk
  <2>4. Cardinality(page) < PageSize
        => Cardinality(From(lines, a)) <= a.offset + Cardinality(page)
    BY <1>5, <2>1, ShortPageIsTheEnd
  <2> QED BY <1>7, <2>1, <2>2, <2>3, <2>4 DEF TotalOk
<1>12. ProgressOk(lines, record)
  <2>1. a.unseen \subseteq From(lines, a)
    BY <1>3 DEF WalkOk, ProgressOk
  <2>2. ASSUME a.order # "status", NEW u \in a.unseen \ page
        PROVE  /\ Cardinality(page) = PageSize
               /\ a.offset + PageSize <= Cardinality(Ahead(lines, a, u))
    <3>1. a.offset <= Cardinality(Ahead(lines, a, u)) /\ u \in From(lines, a) /\ u \notin page
      BY <1>3, <1>6, <2>1, <2>2 DEF WalkOk, ProgressOk
    <3> QED BY <1>3, <1>5, <2>2, <3>1, PageShowsNext
  <2> QED BY <1>7, <1>9, <2>1, <2>2 DEF ProgressOk
<1> QED BY <1>1, <1>2, <1>8, <1>10, <1>11, <1>12, WalkStep DEF WalkOk

LEMMA NextPageKeepsIInv ==
    ASSUME IInv, NEW w \in Walks, NextPage(w)
    PROVE  IInv'
<1> DEFINE a == walk[w]
           offset == a.offset + PageSize
           record == [a EXCEPT !.pc = "count", !.offset = offset, !.total = 0, !.items = {}]
<1>1. /\ a.pc = "page" /\ (offset < a.total \/ Cardinality(a.items) = PageSize)
      /\ walk' = [walk EXCEPT ![w] = record]
      /\ UNCHANGED <<status, holder, grant, call, composed, lines>>
  BY DEF NextPage, IInv, TypeOK
<1>2. a \in Walk /\ WalkOk(lines, a) /\ IsFiniteSet(lines)
  BY DEF IInv, TypeOK, LineInv, WalkInv
<1> HIDE DEF a
<1>3. /\ a.offset \in Nat /\ a.total \in Nat /\ PageSize \in Nat /\ offset \in Nat
  BY <1>2, HistoryAssumption DEF Walk
<1> HIDE DEF offset
<1>4. /\ record \in Walk /\ record.pc = "count" /\ record.offset = offset
      /\ record.total = 0 /\ record.items = {}
      /\ record.reader = a.reader /\ record.scope = a.scope
      /\ record.order = a.order /\ record.unseen = a.unseen
  BY <1>2, <1>3 DEF Walk
<1> HIDE DEF record
<1>5. /\ From(lines, record) = From(lines, a)
      /\ \A u : Ahead(lines, record, u) = Ahead(lines, a, u)
  BY <1>4, SameListing
<1>6. ReaderOk(lines, record)
  BY <1>2, <1>4 DEF WalkOk, ReaderOk
<1>7. TotalOk(lines, record)
  BY <1>4 DEF TotalOk
<1>8. ProgressOk(lines, record)
  <2>1. a.unseen \subseteq From(lines, a)
    BY <1>2 DEF WalkOk, ProgressOk
  <2>2. a.order # "status" => \A u \in a.unseen : offset <= Cardinality(Ahead(lines, a, u))
    BY <1>1, <1>2 DEF WalkOk, ProgressOk, offset
  <2> QED BY <1>4, <1>5, <2>1, <2>2 DEF ProgressOk
<1> QED BY <1>1, <1>4, <1>6, <1>7, <1>8, WalkStep DEF WalkOk

LEMMA OpenLineKeepsIInv ==
    ASSUME IInv, NEW w \in Walks, NEW c \in Calls, OpenLine(w, c)
    PROVE  IInv'
<1> DEFINE reader == walk[w].reader
           found == {line \in lines : line.id = c /\ line.key \in Readable(reader)}
           record == [NoWalk EXCEPT !.pc = "line", !.reader = reader, !.items = found]
<1>1. /\ walk' = [walk EXCEPT ![w] = record]
      /\ UNCHANGED <<status, holder, grant, call, composed, lines>>
  BY DEF OpenLine
<1>2. reader \in Users \cup {Admin} /\ lines \in SUBSET Line /\ IsFiniteSet(lines)
  BY DEF IInv, TypeOK, LineInv, Walk
<1>3. found \in SUBSET Line /\ \A line \in found : line \in lines /\ line.key \in Readable(reader)
  BY <1>2
<1> HIDE DEF reader, found
<1>4. /\ record \in Walk /\ record.pc = "line" /\ record.reader = reader
      /\ record.items = found /\ record.scope = {} /\ record.unseen = {}
  BY <1>2, <1>3 DEF NoWalk, Walk, Orders
<1> HIDE DEF record
<1>5. Cardinality(From(lines, record)) \in Nat
  BY <1>2, FromFinite
<1>6. WalkOk(lines, record)
  BY <1>3, <1>4, <1>5 DEF WalkOk, ReaderOk, TotalOk, ProgressOk
<1> QED BY <1>1, <1>4, <1>6, WalkStep

LEMMA LeaveKeepsIInv ==
    ASSUME IInv, NEW w \in Walks, Leave(w)
    PROVE  IInv'
<1>1. NoWalk \in Walk /\ WalkOk(lines, NoWalk)
  BY NoWalkIsOk DEF IInv, LineInv
<1> QED BY <1>1, WalkStep DEF Leave

LEMMA NextKeepsIInv == IInv /\ [Next]_hvars => IInv'
<1> SUFFICES ASSUME IInv, [Next]_hvars PROVE IInv'
  OBVIOUS
<1>1. CASE UNCHANGED hvars
  <2>1. TypeOK' /\ SessionInv' /\ WalkInv'
    BY <1>1 DEF hvars, IInv, TypeOK, SessionInv, WalkInv
  <2>2. CallInv'
    BY <1>1 DEF hvars, IInv, CallInv, CallOk, Sessions!NoGrant
  <2>3. Composed' = Composed
    BY <1>1 DEF hvars, Composed
  <2>4. LineInv'
    BY <1>1, <2>3 DEF hvars, IInv, LineInv
  <2> QED BY <2>1, <2>2, <2>4 DEF IInv
<1>2. ASSUME NEW s \in Sids, NEW k \in Keys, Open(s, k) PROVE IInv'
  BY <1>2, OpenKeepsIInv
<1>3. ASSUME NEW s \in Sids, Close(s) PROVE IInv'
  BY <1>3, CloseKeepsIInv
<1>4. ASSUME NEW c \in Calls, NEW s \in Sids, Start(c, s) PROVE IInv'
  BY <1>4, StartKeepsIInv
<1>5. ASSUME NEW c \in Calls, NEW blocked \in BOOLEAN, Compose(c, blocked) PROVE IInv'
  BY <1>5, ComposeKeepsIInv
<1>6. ASSUME NEW c \in Calls, Insert(c) PROVE IInv'
  BY <1>6, InsertKeepsIInv
<1>7. ASSUME NEW c \in Calls, Drop(c) PROVE IInv'
  BY <1>7, DropKeepsIInv
<1>8. ASSUME NEW w \in Walks, NEW reader \in Users \cup {Admin}, NEW scope \in SUBSET Keys,
             NEW order \in Orders, NEW offset \in Offsets,
             Enter(w, reader, scope, order, offset) PROVE IInv'
  BY <1>8, EnterKeepsIInv
<1>9. ASSUME NEW w \in Walks, Count(w) PROVE IInv'
  BY <1>9, CountKeepsIInv
<1>10. ASSUME NEW w \in Walks, Rows(w) PROVE IInv'
  BY <1>10, RowsKeepsIInv
<1>11. ASSUME NEW w \in Walks, NextPage(w) PROVE IInv'
  BY <1>11, NextPageKeepsIInv
<1>12. ASSUME NEW w \in Walks, NEW c \in Calls, OpenLine(w, c) PROVE IInv'
  BY <1>12, OpenLineKeepsIInv
<1>13. ASSUME NEW w \in Walks, Leave(w) PROVE IInv'
  BY <1>13, LeaveKeepsIInv
<1> QED
  BY <1>1, <1>2, <1>3, <1>4, <1>5, <1>6, <1>7, <1>8, <1>9, <1>10, <1>11, <1>12, <1>13
  DEF Next

------------------------------------------------------------------------------
\* The invariant holds of every behaviour of sessions, calls and clients.
THEOREM Invariance == Spec => []IInv
<1>1. Init => IInv
  BY InitEstablishesIInv
<1>2. IInv /\ [Next]_hvars => IInv'
  BY NextKeepsIInv
<1> QED BY <1>1, <1>2, PTL DEF Spec

\* The tables, the calls and the clients stay in the ranges of their columns.
THEOREM TypeCorrect == Spec => []TypeOK
<1>1. IInv => TypeOK
  BY DEF IInv
<1> QED BY <1>1, Invariance, PTL

\* Whoever pages by date until a page is not full has been shown every line there
\* was when he began, however many lines are added and in whatever order
\* (list_calls and list_all_calls).
THEOREM PagingSafety == Spec => []WalkFindsAll
<1>1. IInv => WalkFindsAll
  <2> SUFFICES ASSUME IInv, NEW w \in Walks, walk[w].pc = "page",
                      walk[w].order \in {"newest", "oldest"},
                      Cardinality(walk[w].items) < PageSize
               PROVE  walk[w].unseen = {}
    BY DEF WalkFindsAll
  <2>1. ProgressOk(lines, walk[w])
    BY DEF IInv, WalkInv, WalkOk
  <2>2. Cardinality(walk[w].items) # PageSize
    BY HistoryAssumption
  <2> QED BY <2>1, <2>2 DEF ProgressOk
<1> QED BY <1>1, Invariance, PTL

\* A page that is not full ends the listing by its total too, however many lines
\* are added between the count and the select (list_calls and list_all_calls).
THEOREM TotalSafety == Spec => []PageAgreesWithTotal
<1>1. IInv => PageAgreesWithTotal
  BY DEF IInv, WalkInv, WalkOk, TotalOk, PageAgreesWithTotal
<1> QED BY <1>1, Invariance, PTL

\* No line is changed, given to a key that did not run the call, or shown to a
\* user whose key it was not (_persist, record, list_calls, get_call).
THEOREM OwnerSafety == Spec => LinesKeepTheirOwners
<1> DEFINE Kept ==
      /\ lines \subseteq lines'
      /\ \A line \in lines' \ lines :
           /\ line.key \in call[line.id].held
           /\ \A other \in lines : other.id # line.id
      /\ \A w \in Walks : walk'[w].reader \in Users =>
           \A line \in walk'[w].items :
             Owner[line.key] = walk'[w].reader /\ line \in lines'
<1>1. IInv /\ IInv' /\ [Next]_hvars => [Kept]_hvars
  <2> SUFFICES ASSUME IInv, IInv', Next PROVE Kept
    OBVIOUS
  <2>1. /\ lines \subseteq lines'
        /\ \A line \in lines' \ lines :
             \E c \in Calls : call[c].pc = "insert" /\ line \in call[c].entry
    BY DEF Next, Open, Close, Start, Compose, Insert, Drop, Enter, Count, Rows,
           NextPage, OpenLine, Leave
  <2>2. \A line \in lines' \ lines :
          line.key \in call[line.id].held /\ call[line.id].pc = "insert"
    BY <2>1 DEF IInv, CallInv, CallOk
  <2>3. \A other \in lines : call[other.id].pc = "recorded"
    BY DEF IInv, LineInv
  <2>4. ASSUME NEW w \in Walks, walk'[w].reader \in Users, NEW line \in walk'[w].items
        PROVE  Owner[line.key] = walk'[w].reader /\ line \in lines'
    <3>1. ReaderOk(lines', walk'[w])
      BY DEF IInv, WalkInv, WalkOk
    <3>2. walk'[w].reader # Admin
      BY <2>4, HistoryAssumption
    <3> QED BY <2>4, <3>1, <3>2 DEF ReaderOk, Readable
  <2> QED BY <2>1, <2>2, <2>3, <2>4
<1>2. Spec => []IInv
  BY Invariance
<1> QED BY <1>1, <1>2, PTL DEF Spec, LinesKeepTheirOwners
===============================================================================
