-------------------------- MODULE BagReaderProofs ---------------------------
(***************************************************************************)
(* The two passes over a bag, for every well-formed file, wherever it ends *)
(* and whatever its chunks unpack to: MessagesWhole.                       *)
(*                                                                         *)
(* The inductive invariant says how far each pass is.  The connection      *)
(* table names what the index records before pos name (Tabled).  Some      *)
(* position splits the messages of the selected connections into those     *)
(* delivered and the rest (Progress): the cursor while the reader reads,   *)
(* and where it was when it threw.                                         *)
(***************************************************************************)
EXTENDS BagReader, SequenceTheorems, TLAPS

\* The reader on its own: the program may ask for any topics.
Next ==
    \/ Open \/ Scan
    \/ \E wanted : BeginRead(wanted)
    \/ Read \/ Deliver

Spec == Init /\ [][Next]_vars

-----------------------------------------------------------------------------
\* The messages before a position.
Upto(b, conns, p, i) == {m \in MessagesIn(b, conns) : Before(m, <<p, i>>)}

\* The connections of the index records up to the k-th record of the file.
NamedUpto(b, k) ==
    {(b.body \o b.index)[j].conn :
        j \in {j \in (Len(b.body) + 1)..k : (b.body \o b.index)[j].op = "connection"}}

\* The records whose header is there.
There(b) == b.whole + (IF b.rest = "data" THEN 1 ELSE 0)

Typed == WellFormed(bag) /\ TypeOK

Tabled ==
    /\ reader = "closed" => DOMAIN topics = {}
    /\ reader = "scanning" =>
           /\ pos > Len(bag.body)
           /\ pos = Len(bag.body) + 1 \/ pos <= There(bag) + 1
           /\ DOMAIN topics = NamedUpto(bag, pos - 1)
    /\ reader \in {"open", "reading", "chunk", "returned"} =>
           DOMAIN topics = NamedUpto(bag, There(bag))
    /\ bag.whole < Len(bag.body) => DOMAIN topics = {}

Progress ==
    /\ reader \in {"closed", "scanning", "open"} => delivered = <<>> /\ filter = {}
    /\ reader = "reading" => pos > 0 /\ Delivered = Upto(bag, filter, pos, 1)
    /\ reader = "chunk" => /\ pos \in 1..Len(bag.body)
                           /\ bag.body[pos].op = "chunk"
                           /\ inner > 0
                           /\ Delivered = Upto(bag, filter, pos, inner)
    /\ reader = "returned" => /\ pos > Len(bag.body)
                              /\ Delivered = Upto(bag, filter, pos, 1)
    /\ \E p, i \in Nat : Delivered = Upto(bag, filter, p, i)

Sorted == \A k \in 1..Len(delivered) : \A j \in 1..(k - 1) : Before(delivered[j], delivered[k])

Inv == Typed /\ Tabled /\ Progress /\ Sorted

-----------------------------------------------------------------------------
\* A message of a file is a place in one of its chunks.
LEMMA Places ==
    ASSUME NEW b, NEW conns, WellFormed(b)
    PROVE  /\ Len(b.body) \in Nat
           /\ \A m \in MessagesIn(b, conns) :
                  /\ m = <<m[1], m[2]>>
                  /\ m[1] \in 1..Len(b.body) /\ b.body[m[1]].op = "chunk"
                  /\ m[2] \in 1..Len(b.body[m[1]].messages)
                  /\ Len(b.body[m[1]].messages) \in Nat
                  /\ b.body[m[1]].messages[m[2]].op = "message"
                  /\ b.body[m[1]].messages[m[2]].conn \in conns
           /\ \A p \in 1..Len(b.body) :
                  b.body[p].op = "chunk" =>
                      /\ Len(b.body[p].messages) \in Nat
                      /\ \A i \in 1..Len(b.body[p].messages) :
                             <<p, i>> \in MessagesIn(b, conns) <=>
                                 /\ b.body[p].messages[i].op = "message"
                                 /\ b.body[p].messages[i].conn \in conns
<1>1. b.body \in Seq(Range(b.body)) /\ Len(b.body) \in Nat
  BY LenProperties DEF WellFormed
<1>2. \A p \in 1..Len(b.body) : b.body[p] \in Range(b.body)
  BY <1>1, ElementOfSeq
<1>3. \A p \in 1..Len(b.body) :
          b.body[p].op = "chunk" => Len(b.body[p].messages) \in Nat
  <2> SUFFICES ASSUME NEW p \in 1..Len(b.body), b.body[p].op = "chunk"
               PROVE  Len(b.body[p].messages) \in Nat
    OBVIOUS
  <2>1. b.body[p].messages \in Seq(Range(b.body[p].messages))
    BY <1>2 DEF WellFormed
  <2> QED
    BY <2>1, LenProperties
<1>4. \A m : m \in MessagesIn(b, conns) <=>
          \E p \in 1..Len(b.body) :
              /\ b.body[p].op = "chunk"
              /\ \E i \in 1..Len(b.body[p].messages) :
                     /\ m = <<p, i>>
                     /\ b.body[p].messages[i].op = "message"
                     /\ b.body[p].messages[i].conn \in conns
  BY DEF MessagesIn
<1>5. \A m \in MessagesIn(b, conns) :
          /\ m = <<m[1], m[2]>>
          /\ m[1] \in 1..Len(b.body) /\ b.body[m[1]].op = "chunk"
          /\ m[2] \in 1..Len(b.body[m[1]].messages)
          /\ b.body[m[1]].messages[m[2]].op = "message"
          /\ b.body[m[1]].messages[m[2]].conn \in conns
  BY <1>4
<1>6. ASSUME NEW p \in 1..Len(b.body), b.body[p].op = "chunk",
             NEW i \in 1..Len(b.body[p].messages)
      PROVE  <<p, i>> \in MessagesIn(b, conns) <=>
                 /\ b.body[p].messages[i].op = "message"
                 /\ b.body[p].messages[i].conn \in conns
  BY <1>4, <1>6
<1> QED
  BY <1>1, <1>3, <1>5, <1>6

\* How the messages before a position grow as the position moves.
LEMMA UptoStart ==
    ASSUME NEW b, NEW conns, WellFormed(b)
    PROVE  Upto(b, conns, 1, 1) = {} /\ Upto(b, {}, 0, 0) = {}
<1>1. \A m \in MessagesIn(b, conns) : m[1] \in Nat /\ m[1] >= 1 /\ m[2] >= 1 /\ m[2] \in Nat
  BY Places
<1>2. MessagesIn(b, {}) = {}
  BY Places
<1> QED
  BY <1>1, <1>2 DEF Upto, Before

LEMMA UptoRecord ==
    ASSUME NEW b, NEW conns, WellFormed(b), NEW p \in Nat, p > 0,
           NEW i \in Nat, i > 0,
           \/ b.body[p].op # "chunk" /\ i = 1
           \/ i > Len(b.body[p].messages)
    PROVE  Upto(b, conns, p + 1, 1) = Upto(b, conns, p, i)
<1>1. ASSUME NEW m \in MessagesIn(b, conns)
      PROVE  Before(m, <<p + 1, 1>>) <=> Before(m, <<p, i>>)
  <2>1. /\ m[1] \in Nat /\ m[2] \in Nat /\ m[2] >= 1
        /\ b.body[m[1]].op = "chunk" /\ m[2] <= Len(b.body[m[1]].messages)
        /\ Len(b.body[m[1]].messages) \in Nat
    BY Places
  <2>2. m[1] = p => m[2] < i
    BY <2>1
  <2>3. (m[1] < p + 1 \/ (m[1] = p + 1 /\ m[2] < 1)) <=> (m[1] < p \/ (m[1] = p /\ m[2] < i))
    BY <2>1, <2>2
  <2> QED
    BY <2>3 DEF Before
<1> QED
  BY <1>1 DEF Upto

LEMMA UptoMessage ==
    ASSUME NEW b, NEW conns, WellFormed(b), NEW p \in Nat, NEW i \in Nat, NEW next, next = i + 1
    PROVE  Upto(b, conns, p, next)
               = Upto(b, conns, p, i) \union (MessagesIn(b, conns) \intersect {<<p, i>>})
<1>1. ASSUME NEW m \in MessagesIn(b, conns)
      PROVE  Before(m, <<p, next>>) <=> Before(m, <<p, i>>) \/ m = <<p, i>>
  <2>1. m = <<m[1], m[2]>> /\ m[1] \in Nat /\ m[2] \in Nat
    BY Places
  <2>2. m = <<p, i>> <=> m[1] = p /\ m[2] = i
    BY <2>1
  <2>3. (m[1] < p \/ (m[1] = p /\ m[2] < next))
            <=> (m[1] < p \/ (m[1] = p /\ m[2] < i)) \/ (m[1] = p /\ m[2] = i)
    BY <2>1
  <2> QED
    BY <2>2, <2>3 DEF Before
<1> QED
  BY <1>1 DEF Upto

LEMMA UptoEnd ==
    ASSUME NEW b, NEW conns, WellFormed(b), NEW p \in Nat, p > Len(b.body)
    PROVE  Upto(b, conns, p, 1) = MessagesIn(b, conns)
<1>1. \A m \in MessagesIn(b, conns) : m[1] < p
  BY Places
<1> QED
  BY <1>1 DEF Upto, Before

\* The place of the cursor in the body.
LEMMA Joined ==
    ASSUME NEW s, NEW t, s \in Seq(Range(s)), t \in Seq(Range(t))
    PROVE  /\ Len(s) \in Nat /\ Len(t) \in Nat
           /\ \A p \in 1..Len(s) : (s \o t)[p] = s[p]
           /\ \A p \in (Len(s) + 1)..(Len(s) + Len(t)) : (s \o t)[p] = t[p - Len(s)]
<1> DEFINE S == Range(s) \union Range(t)
<1>1. s \in Seq(S) /\ t \in Seq(S)
  BY SeqMonotonic
<1>2. Len(s) \in Nat /\ Len(t) \in Nat
  BY <1>1, LenProperties
<1>3. \A p \in 1..(Len(s) + Len(t)) :
          (s \o t)[p] = IF p <= Len(s) THEN s[p] ELSE t[p - Len(s)]
  BY <1>1, ConcatProperties
<1> QED
  BY <1>2, <1>3

LEMMA RecordIs ==
    ASSUME NEW b, WellFormed(b)
    PROVE  /\ Len(b.body) \in Nat /\ Len(b.index) \in Nat /\ b.whole \in Nat
           /\ \A p \in 1..Len(b.body) : (b.body \o b.index)[p] = b.body[p]
<1>1. b.body \in Seq(Range(b.body)) /\ b.index \in Seq(Range(b.index))
  BY DEF WellFormed
<1>2. b.whole \in 0..(Len(b.body) + Len(b.index))
  BY DEF WellFormed
<1>3. /\ Len(b.body) \in Nat /\ Len(b.index) \in Nat
      /\ \A p \in 1..Len(b.body) : (b.body \o b.index)[p] = b.body[p]
  BY <1>1, Joined
<1>4. b.whole \in Nat
  <2>1. \A n \in Nat, k \in Nat : 0..(n + k) \subseteq Nat
    OBVIOUS
  <2> QED
    BY <1>2, <1>3, <2>1
<1> QED
  BY <1>3, <1>4

-----------------------------------------------------------------------------
LEMMA InitInv == ASSUME \A b \in Bags : WellFormed(b), Init
                 PROVE  Inv
<1>1. /\ WellFormed(bag) /\ topics = <<>> /\ filter = {} /\ reader = "closed"
      /\ pos = 0 /\ inner = 0 /\ delivered = <<>>
  BY DEF Init
<1>2. delivered \in Seq(Nat \X Nat) /\ Len(delivered) = 0 /\ Delivered = {}
  BY <1>1, EmptySeq DEF Delivered
<1>3. DOMAIN topics = {}
  BY <1>1
<1>4. Typed
  BY <1>1, <1>2 DEF Typed, TypeOK
<1>5. Upto(bag, filter, 0, 0) = {}
  BY <1>1, UptoStart
<1>6. Progress
  BY <1>1, <1>2, <1>5 DEF Progress
<1>7. Tabled /\ Sorted
  BY <1>1, <1>2, <1>3 DEF Tabled, Sorted
<1> QED
  BY <1>4, <1>6, <1>7 DEF Inv

\* A step that throws keeps everything but the reader.
LEMMA ThrowInv == ASSUME Inv, Throw
                  PROVE  Inv'
<1>1. /\ reader' = "threw" /\ UNCHANGED <<bag, topics, filter, pos, inner, delivered>>
      /\ Delivered' = Delivered
  BY DEF Throw, Delivered
<1>2. Typed'
  BY <1>1 DEF Inv, Typed, TypeOK, WellFormed
<1>3. Tabled' /\ Sorted'
  BY <1>1 DEF Inv, Tabled, Sorted
<1>4. Progress'
  BY <1>1 DEF Inv, Progress
<1> QED
  BY <1>2, <1>3, <1>4 DEF Inv

LEMMA OpenInv == ASSUME Inv, Open
                 PROVE  Inv'
<1>1. CASE Throw
  BY <1>1, ThrowInv
<1>2. CASE ~Throw
  <2>1. /\ reader = "closed" /\ reader' = "scanning" /\ pos' = Len(bag.body) + 1
        /\ UNCHANGED <<bag, topics, filter, inner, delivered>> /\ Delivered' = Delivered
    BY <1>2 DEF Open, Delivered
  <2>2. Len(bag.body) \in Nat
    BY RecordIs DEF Inv, Typed
  <2>3. Typed'
    <3>1. pos' \in Nat
      BY <2>1, <2>2
    <3> QED
      BY <2>1, <3>1 DEF Inv, Typed, TypeOK, WellFormed
  <2>4. NamedUpto(bag, Len(bag.body)) = {}
    <3>1. (Len(bag.body) + 1)..Len(bag.body) = {}
      BY <2>2
    <3> QED
      BY <3>1 DEF NamedUpto
  <2>5. Tabled'
    <3>1. pos' - 1 = Len(bag.body)
      BY <2>1, <2>2
    <3> QED
      BY <2>1, <2>2, <2>4, <3>1 DEF Inv, Tabled
  <2>6. Progress' /\ Sorted'
    BY <2>1 DEF Inv, Progress, Sorted
  <2> QED
    BY <2>3, <2>5, <2>6 DEF Inv
<1> QED
  BY <1>1, <1>2

LEMMA ScanEndsInv == ASSUME Inv, ScanEnds
                     PROVE  Inv'
<1>1. /\ reader = "scanning" /\ reader' = "open" /\ AtEnd
      /\ UNCHANGED <<bag, topics, filter, pos, inner, delivered>> /\ Delivered' = Delivered
  BY DEF ScanEnds, Delivered
<1>2. Typed' /\ Progress' /\ Sorted'
  BY <1>1 DEF Inv, Typed, TypeOK, WellFormed, Progress, Sorted
<1>3. NamedUpto(bag, pos - 1) = NamedUpto(bag, There(bag))
  <2>1. /\ pos > Len(bag.body) /\ pos \in Nat
        /\ pos = Len(bag.body) + 1 \/ pos <= There(bag) + 1
        /\ Len(bag.body) \in Nat /\ bag.whole \in Nat
    BY <1>1, RecordIs DEF Inv, Typed, TypeOK, Tabled
  <2>2. There(bag) <= pos - 1 /\ There(bag) \in Nat
    BY <1>1, <2>1 DEF AtEnd, There
  <2>3. CASE pos = Len(bag.body) + 1
    <3>1. (Len(bag.body) + 1)..(pos - 1) = (Len(bag.body) + 1)..There(bag)
      BY <2>1, <2>2, <2>3
    <3> QED
      BY <3>1 DEF NamedUpto
  <2>4. CASE pos <= There(bag) + 1
    <3>1. pos - 1 = There(bag)
      BY <2>1, <2>2, <2>4
    <3> QED
      BY <3>1
  <2> QED
    BY <2>1, <2>3, <2>4
<1>4. Tabled'
  BY <1>1, <1>3 DEF Inv, Tabled
<1> QED
  BY <1>2, <1>4 DEF Inv

LEMMA ScanRecordInv == ASSUME Inv, ScanRecord
                       PROVE  Inv'
<1>1. /\ reader = "scanning" /\ HeaderThere /\ pos' = pos + 1
      /\ DOMAIN topics' = DOMAIN topics \union
                             (IF Record.op = "connection" THEN {Record.conn} ELSE {})
      /\ UNCHANGED <<bag, filter, reader, inner, delivered>> /\ Delivered' = Delivered
  BY DEF ScanRecord, Delivered
<1>2. /\ pos > Len(bag.body) /\ pos \in Nat /\ Len(bag.body) \in Nat /\ bag.whole \in Nat
      /\ filter = {}
  BY <1>1, RecordIs DEF Inv, Typed, TypeOK, Tabled, Progress
<1>3. Typed'
  <2>1. pos' \in Nat /\ filter' = {}
    BY <1>1, <1>2
  <2> QED
    BY <1>1, <2>1 DEF Inv, Typed, TypeOK, WellFormed
<1>4. Progress' /\ Sorted'
  BY <1>1 DEF Inv, Progress, Sorted
<1>5. DOMAIN topics' = NamedUpto(bag, pos)
  <2>1. DOMAIN topics = NamedUpto(bag, pos - 1)
    BY <1>1 DEF Inv, Tabled
  <2>3. (Len(bag.body) + 1)..pos = ((Len(bag.body) + 1)..(pos - 1)) \union {pos}
    BY <1>2
  <2> DEFINE file == bag.body \o bag.index
             Names(range) == {j \in range : file[j].op = "connection"}
  <2>4. /\ NamedUpto(bag, pos) = {file[j].conn : j \in Names((Len(bag.body) + 1)..pos)}
        /\ NamedUpto(bag, pos - 1) = {file[j].conn : j \in Names((Len(bag.body) + 1)..(pos - 1))}
    BY DEF NamedUpto
  <2>5. Names((Len(bag.body) + 1)..pos)
            = Names((Len(bag.body) + 1)..(pos - 1))
                  \union (IF file[pos].op = "connection" THEN {pos} ELSE {})
    BY <2>3
  <2>6. /\ DOMAIN topics = {file[j].conn : j \in Names((Len(bag.body) + 1)..(pos - 1))}
        /\ DOMAIN topics' = DOMAIN topics \union
                               (IF file[pos].op = "connection" THEN {file[pos].conn} ELSE {})
    BY <1>1, <2>1, <2>4 DEF Record
  <2> HIDE DEF file, Names
  <2>7. {file[j].conn : j \in Names((Len(bag.body) + 1)..pos)}
            = {file[j].conn : j \in Names((Len(bag.body) + 1)..(pos - 1))}
                  \union (IF file[pos].op = "connection" THEN {file[pos].conn} ELSE {})
    BY <2>5
  <2> QED
    BY <2>4, <2>6, <2>7
<1>6. pos <= There(bag)
  BY <1>1, <1>2 DEF HeaderThere, There
<1>7. ~(bag.whole < Len(bag.body))
  BY <1>2, <1>6 DEF There
<1>8. Tabled'
  <2>1. pos' - 1 = pos /\ pos' > Len(bag.body) /\ pos' <= There(bag) + 1
    BY <1>1, <1>2, <1>6 DEF There
  <2> QED
    BY <1>1, <1>5, <1>7, <2>1 DEF Tabled
<1> QED
  BY <1>3, <1>4, <1>8 DEF Inv

LEMMA BeginReadInv == ASSUME Inv, NEW wanted, BeginRead(wanted)
                      PROVE  Inv'
<1>1. /\ reader = "open" /\ reader' = "reading" /\ filter' = Selected(wanted) /\ pos' = 1
      /\ UNCHANGED <<bag, topics, inner, delivered>> /\ Delivered' = Delivered
      /\ delivered = <<>>
  BY DEF BeginRead, Delivered, Inv, Progress
<1>2. Typed'
  BY <1>1 DEF Inv, Typed, TypeOK, WellFormed, Selected
<1>3. Tabled' /\ Sorted'
  BY <1>1 DEF Inv, Tabled, Sorted
<1>4. Delivered = {} /\ WellFormed(bag)
  BY <1>1 DEF Delivered, Inv, Typed
<1>5. Upto(bag, filter', 1, 1) = {}
  BY <1>4, UptoStart
<1>6. Progress'
  BY <1>1, <1>4, <1>5 DEF Progress
<1> QED
  BY <1>2, <1>3, <1>6 DEF Inv

-----------------------------------------------------------------------------
\* The steps of read_messages() leave the connection table alone.
LEMMA TableKept ==
    ASSUME Inv, UNCHANGED <<bag, topics, filter>>,
           reader \in {"reading", "chunk"}, reader' \in {"reading", "chunk", "returned"},
           pos' \in Nat, inner' \in Nat, delivered' \in Seq(Nat \X Nat)
    PROVE  Typed' /\ Tabled'
<1>1. Typed'
  BY DEF Inv, Typed, TypeOK, WellFormed
<1>2. Tabled'
  BY DEF Inv, Tabled
<1> QED
  BY <1>1, <1>2

LEMMA ReadTypes ==
    ASSUME Inv
    PROVE  /\ WellFormed(bag) /\ pos \in Nat /\ inner \in Nat /\ delivered \in Seq(Nat \X Nat)
           /\ Len(bag.body) \in Nat
           /\ \A p \in 1..Len(bag.body) : (bag.body \o bag.index)[p] = bag.body[p]
<1>1. /\ WellFormed(bag) /\ pos \in Nat /\ inner \in Nat /\ delivered \in Seq(Nat \X Nat)
  BY DEF Inv, Typed, TypeOK
<1> QED
  BY <1>1, RecordIs

LEMMA ReturnInv == ASSUME Inv, Return
                   PROVE  Inv'
<1>1. /\ reader = "reading" /\ reader' = "returned" /\ pos > Len(bag.body)
      /\ UNCHANGED <<bag, topics, filter, pos, inner, delivered>> /\ Delivered' = Delivered
  BY DEF Return, Delivered
<1>2. Typed' /\ Tabled'
  BY <1>1, TableKept, ReadTypes
<1>3. Progress' /\ Sorted'
  BY <1>1 DEF Inv, Progress, Sorted
<1> QED
  BY <1>2, <1>3 DEF Inv

\* The reader moves on to the next record of the body.
LEMMA NextRecord ==
    ASSUME Inv, NEW i \in Nat, i > 0,
           reader \in {"reading", "chunk"}, reader' = "reading", pos \in 1..Len(bag.body),
           Delivered = Upto(bag, filter, pos, i),
           (bag.body[pos].op # "chunk" /\ i = 1) \/ i > Len(bag.body[pos].messages),
           pos' = pos + 1, UNCHANGED <<bag, topics, filter, inner, delivered>>
    PROVE  Inv'
<1>1. pos' \in Nat /\ pos' > 0 /\ pos \in Nat /\ pos > 0
  BY ReadTypes
<1>2. Typed' /\ Tabled'
  BY <1>1, TableKept, ReadTypes
<1>3. Upto(bag, filter, pos + 1, 1) = Upto(bag, filter, pos, i)
  BY <1>1, UptoRecord, ReadTypes
<1>4. Delivered' = Delivered /\ Delivered = Upto(bag, filter, pos', 1)
  BY <1>3 DEF Delivered
<1>5. Progress'
  BY <1>1, <1>4 DEF Progress
<1>6. Sorted'
  BY DEF Inv, Sorted
<1> QED
  BY <1>2, <1>5, <1>6 DEF Inv

LEMMA SkipRecordInv == ASSUME Inv, SkipRecord
                       PROVE  Inv'
<1>1. /\ reader = "reading" /\ reader' = "reading" /\ pos <= Len(bag.body)
      /\ Record.op # "chunk" /\ pos' = pos + 1
      /\ UNCHANGED <<bag, topics, filter, inner, delivered>>
  BY DEF SkipRecord, InBody
<1>2. pos > 0 /\ Delivered = Upto(bag, filter, pos, 1)
  BY <1>1 DEF Inv, Progress
<1>3. pos \in 1..Len(bag.body)
  BY <1>1, <1>2, ReadTypes
<1>4. bag.body[pos].op # "chunk"
  BY <1>1, <1>3, ReadTypes DEF Record
<1> QED
  BY <1>1, <1>2, <1>3, <1>4, NextRecord

LEMMA LeaveChunkInv == ASSUME Inv, LeaveChunk
                       PROVE  Inv'
<1>1. CASE Throw
  BY <1>1, ThrowInv
<1>2. CASE ~Throw
  <2>1. /\ reader = "chunk" /\ reader' = "reading" /\ inner > Len(Record.messages)
        /\ pos' = pos + 1 /\ UNCHANGED <<bag, topics, filter, inner, delivered>>
    BY <1>2 DEF LeaveChunk
  <2>2. pos \in 1..Len(bag.body) /\ inner > 0 /\ Delivered = Upto(bag, filter, pos, inner)
    BY <2>1 DEF Inv, Progress
  <2>3. inner \in Nat /\ inner > Len(bag.body[pos].messages)
    BY <2>1, <2>2, ReadTypes DEF Record
  <2> QED
    BY <2>1, <2>2, <2>3, NextRecord
<1> QED
  BY <1>1, <1>2

LEMMA EnterChunkInv == ASSUME Inv, EnterChunk
                       PROVE  Inv'
<1>1. /\ reader = "reading" /\ reader' = "chunk" /\ pos <= Len(bag.body)
      /\ Record.op = "chunk" /\ inner' = 1
      /\ UNCHANGED <<bag, topics, filter, pos, delivered>> /\ Delivered' = Delivered
  BY DEF EnterChunk, InBody, Delivered
<1>2. pos > 0 /\ Delivered = Upto(bag, filter, pos, 1)
  BY <1>1 DEF Inv, Progress
<1>3. pos \in 1..Len(bag.body)
  BY <1>1, <1>2, ReadTypes
<1>4. bag.body[pos].op = "chunk"
  BY <1>1, <1>3, ReadTypes DEF Record
<1>5. Typed' /\ Tabled'
  BY <1>1, TableKept, ReadTypes
<1>6. Progress'
  BY <1>1, <1>2, <1>3, <1>4, ReadTypes DEF Progress
<1>7. Sorted'
  BY <1>1 DEF Inv, Sorted
<1> QED
  BY <1>5, <1>6, <1>7 DEF Inv

\* What the reader is at inside a chunk.
LEMMA InChunkFacts ==
    ASSUME Inv, InChunk
    PROVE  /\ pos \in 1..Len(bag.body) /\ pos \in Nat /\ bag.body[pos].op = "chunk"
           /\ inner \in Nat /\ inner > 0
           /\ Delivered = Upto(bag, filter, pos, inner)
           /\ Upto(bag, filter, pos, inner + 1)
                  = Upto(bag, filter, pos, inner)
                        \union (MessagesOn(filter) \intersect {<<pos, inner>>})
           /\ Current = bag.body[pos].messages[inner]
           /\ Callback <=> <<pos, inner>> \in MessagesOn(filter)
<1>1. /\ reader = "chunk" /\ inner <= Len(Record.messages)
      /\ pos \in 1..Len(bag.body) /\ bag.body[pos].op = "chunk" /\ inner > 0
      /\ Delivered = Upto(bag, filter, pos, inner)
  BY DEF InChunk, Inv, Progress
<1>2. Record = bag.body[pos] /\ pos \in Nat /\ inner \in Nat /\ WellFormed(bag)
  BY <1>1, ReadTypes DEF Record
<1>3. Current = bag.body[pos].messages[inner]
  BY <1>2 DEF Current
<1>4. inner \in 1..Len(bag.body[pos].messages)
  <2>1. Len(bag.body[pos].messages) \in Nat
    BY <1>1, <1>2, Places
  <2> QED
    BY <1>1, <1>2, <2>1
<1>5. Callback <=> <<pos, inner>> \in MessagesOn(filter)
  <2>1. <<pos, inner>> \in MessagesIn(bag, filter) <=>
            /\ bag.body[pos].messages[inner].op = "message"
            /\ bag.body[pos].messages[inner].conn \in filter
    BY <1>1, <1>2, <1>4, Places
  <2> QED
    BY <1>3, <2>1 DEF Callback, MessagesOn
<1>6. Upto(bag, filter, pos, inner + 1)
          = Upto(bag, filter, pos, inner)
                \union (MessagesOn(filter) \intersect {<<pos, inner>>})
  <2>1. PICK next : next = inner + 1
    OBVIOUS
  <2>2. Upto(bag, filter, pos, next)
            = Upto(bag, filter, pos, inner)
                  \union (MessagesIn(bag, filter) \intersect {<<pos, inner>>})
    BY <1>2, <2>1, UptoMessage
  <2> QED
    BY <2>1, <2>2 DEF MessagesOn
<1> QED
  BY <1>1, <1>2, <1>3, <1>5, <1>6

LEMMA SkipMessageInv == ASSUME Inv, SkipMessage
                        PROVE  Inv'
<1>1. /\ InChunk /\ ~Callback /\ inner' = inner + 1 /\ reader = "chunk" /\ reader' = "chunk"
      /\ UNCHANGED <<bag, topics, filter, pos, delivered>> /\ Delivered' = Delivered
  BY DEF SkipMessage, InChunk, Delivered
<1>2. Upto(bag, filter, pos, inner + 1) = Upto(bag, filter, pos, inner)
  BY <1>1, InChunkFacts
<1>3. inner' \in Nat /\ inner' > 0
  BY <1>1, InChunkFacts
<1>4. Typed' /\ Tabled'
  BY <1>1, <1>3, TableKept, ReadTypes
<1>5. Delivered' = Upto(bag', filter', pos', inner')
  BY <1>1, <1>2, InChunkFacts
<1>6. Progress'
  BY <1>1, <1>3, <1>5, InChunkFacts DEF Progress
<1>7. Sorted'
  BY <1>1 DEF Inv, Sorted
<1> QED
  BY <1>4, <1>6, <1>7 DEF Inv

LEMMA DeliverInv == ASSUME Inv, Deliver
                    PROVE  Inv'
<1> DEFINE here == <<pos, inner>>
<1>1. /\ InChunk /\ Callback /\ inner' = inner + 1 /\ reader = "chunk" /\ reader' = "chunk"
      /\ delivered' = Append(delivered, here)
      /\ UNCHANGED <<bag, topics, filter, pos>>
  BY DEF Deliver, Callback, InChunk
<1>2. delivered \in Seq(Nat \X Nat) /\ here \in Nat \X Nat
  BY <1>1, InChunkFacts, ReadTypes
<1>3. here \in MessagesOn(filter) /\ Delivered = Upto(bag, filter, pos, inner)
  BY <1>1, InChunkFacts
<1> HIDE DEF here
<1>4. /\ delivered' \in Seq(Nat \X Nat)
      /\ Len(delivered) \in Nat /\ Len(delivered') = Len(delivered) + 1
      /\ delivered'[Len(delivered) + 1] = here
      /\ \A k \in 1..Len(delivered) : delivered'[k] = delivered[k]
  BY <1>1, <1>2, AppendProperties, LenProperties
<1>5. \A k \in 1..(Len(delivered) + 1) : k \in 1..Len(delivered) \/ k = Len(delivered) + 1
  BY <1>4
<1>6. Delivered' = Delivered \union {here}
  <2>1. \A d : d \in Delivered' => d \in Delivered \/ d = here
    BY <1>4, <1>5 DEF Delivered
  <2>2. ASSUME NEW d \in Delivered
        PROVE  d \in Delivered'
    <3>1. PICK k \in 1..Len(delivered) : d = delivered[k]
      BY DEF Delivered
    <3>2. k \in 1..Len(delivered') /\ delivered'[k] = d
      BY <1>4, <3>1
    <3> QED
      BY <3>2 DEF Delivered
  <2>3. here \in Delivered'
    <3>1. Len(delivered) + 1 \in 1..Len(delivered')
      BY <1>4
    <3> QED
      BY <1>4, <3>1 DEF Delivered
  <2> QED
    BY <2>1, <2>2, <2>3
<1>7. Delivered' = Upto(bag', filter', pos', inner')
  <2>1. Upto(bag, filter, pos, inner + 1)
            = Upto(bag, filter, pos, inner) \union (MessagesOn(filter) \intersect {here})
    BY <1>1, InChunkFacts DEF here
  <2> QED
    BY <1>1, <1>3, <1>6, <2>1
<1>8. inner' \in Nat /\ inner' > 0
  BY <1>1, InChunkFacts
<1>9. Typed' /\ Tabled'
  BY <1>1, <1>4, <1>8, TableKept, ReadTypes
<1>10. Progress'
  BY <1>1, <1>7, <1>8, InChunkFacts DEF Progress
<1>11. Sorted'
  <2>1. \A j \in 1..Len(delivered) : Before(delivered[j], here)
    <3>1. \A j \in 1..Len(delivered) : delivered[j] \in Upto(bag, filter, pos, inner)
      BY <1>3 DEF Delivered
    <3> QED
      BY <3>1 DEF Upto, here
  <2> SUFFICES ASSUME NEW k \in 1..(Len(delivered) + 1), NEW j \in 1..(k - 1)
               PROVE  Before(delivered'[j], delivered'[k])
    BY <1>4 DEF Sorted
  <2>2. CASE k = Len(delivered) + 1
    BY <1>4, <2>1, <2>2
  <2>3. CASE k \in 1..Len(delivered)
    <3>1. j \in 1..Len(delivered)
      BY <1>4, <2>3
    <3>2. Before(delivered[j], delivered[k])
      BY <2>3 DEF Inv, Sorted
    <3> QED
      BY <1>4, <2>3, <3>1, <3>2
  <2> QED
    BY <1>5, <2>2, <2>3
<1> QED
  BY <1>9, <1>10, <1>11 DEF Inv

LEMMA NextInv == Inv /\ [Next]_vars => Inv'
<1> SUFFICES ASSUME Inv, [Next]_vars
             PROVE  Inv'
  OBVIOUS
<1>1. CASE Open
  BY <1>1, OpenInv
<1>2. CASE Scan
  BY <1>2, ScanEndsInv, ScanRecordInv, ThrowInv DEF Scan, ScanTorn
<1>3. CASE \E wanted : BeginRead(wanted)
  BY <1>3, BeginReadInv
<1>4. CASE Read
  <2>1. CASE ReadFails
    BY <2>1, ThrowInv DEF ReadFails
  <2> QED
    BY <1>4, <2>1, ReturnInv, SkipRecordInv, EnterChunkInv, SkipMessageInv, LeaveChunkInv
       DEF Read
<1>5. CASE Deliver
  BY <1>5, DeliverInv
<1>6. CASE UNCHANGED vars
  <2>1. UNCHANGED <<bag, topics, filter, reader, pos, inner, delivered>>
        /\ Delivered' = Delivered
    BY <1>6 DEF vars, Delivered
  <2>2. Typed' /\ Tabled' /\ Sorted'
    BY <2>1 DEF Inv, Typed, TypeOK, WellFormed, Tabled, Sorted
  <2>3. Progress'
    BY <2>1 DEF Inv, Progress
  <2> QED
    BY <2>2, <2>3 DEF Inv
<1> QED
  BY <1>1, <1>2, <1>3, <1>4, <1>5, <1>6 DEF Next

LEMMA InvHolds == ASSUME \A b \in Bags : WellFormed(b)
                  PROVE  Spec => []Inv
<1>1. Init => Inv
  BY InitInv
<1> QED
  BY <1>1, NextInv, PTL DEF Spec

-----------------------------------------------------------------------------
LEMMA InvWhole == ASSUME Inv
                  PROVE  MessagesWhole
<1>1. Named = NamedUpto(bag, There(bag))
  BY DEF Named, NamedUpto, There
<1>2. reader \in {"reading", "chunk", "returned"} => DOMAIN topics = Named
  BY <1>1 DEF Inv, Tabled
<1>3. Delivered \subseteq MessagesOn(filter)
  BY DEF Inv, Progress, Upto, MessagesOn
<1>4. ASSUME NEW m \in MessagesOn(filter) \ Delivered
      PROVE  reader # "returned" /\ \A n \in Delivered : Before(n, m)
  <2>1. PICK p \in Nat, i \in Nat : Delivered = Upto(bag, filter, p, i)
    BY DEF Inv, Progress
  <2>2. ~Before(m, <<p, i>>)
    BY <2>1 DEF Upto, MessagesOn
  <2>3. m[1] \in Nat /\ m[2] \in Nat
    BY ReadTypes, Places DEF MessagesOn
  <2>4. ASSUME NEW n \in Delivered
        PROVE  Before(n, m)
    <3>1. n[1] \in Nat /\ n[2] \in Nat
      BY <1>3, ReadTypes, Places DEF MessagesOn
    <3>2. Before(n, <<p, i>>)
      BY <2>1 DEF Upto
    <3> QED
      BY <2>2, <2>3, <3>1, <3>2 DEF Before
  <2>5. reader # "returned"
    <3> SUFFICES ASSUME reader = "returned"
                 PROVE  FALSE
      OBVIOUS
    <3>1. pos > Len(bag.body) /\ Delivered = Upto(bag, filter, pos, 1)
      BY DEF Inv, Progress
    <3>2. Delivered = MessagesOn(filter)
      BY <3>1, UptoEnd, ReadTypes DEF MessagesOn
    <3> QED
      BY <3>2
  <2> QED
    BY <2>4, <2>5
<1>5. bag.whole < Len(bag.body) => delivered = <<>>
  <2> SUFFICES ASSUME bag.whole < Len(bag.body)
               PROVE  delivered = <<>>
    OBVIOUS
  <2>1. filter = {}
    BY DEF Inv, Typed, TypeOK, Tabled
  <2>2. MessagesOn({}) = {}
    <3>1. WellFormed(bag)
      BY ReadTypes
    <3>2. \A m \in MessagesIn(bag, {}) : bag.body[m[1]].messages[m[2]].conn \in {}
      BY <3>1, Places
    <3> QED
      BY <3>2 DEF MessagesOn
  <2>3. Delivered = {}
    BY <1>3, <2>1, <2>2
  <2>4. ~(1 \in 1..Len(delivered))
    BY <2>3 DEF Delivered
  <2> QED
    BY <2>4, ReadTypes, EmptySeq, LenProperties
<1> QED
  BY <1>2, <1>3, <1>4, <1>5 DEF MessagesWhole, Inv, Sorted

\* Of every well-formed bag, wherever it ends and however its chunks unpack, the
\* callback gets the messages of the selected topics once each and in file
\* order, and the reader returns only after all of them (bag_reader.cpp:122-232).
THEOREM ReadsWhole == ASSUME \A b \in Bags : WellFormed(b)
                      PROVE  Spec => []MessagesWhole
<1>1. Inv => MessagesWhole
  BY InvWhole
<1> QED
  BY <1>1, InvHolds, PTL
=============================================================================
