----------------------------- MODULE BagReader ------------------------------
(***************************************************************************)
(* The two passes of src/io/bag_reader.cpp over a ROS bag: the connections *)
(* of the index section at the end of the file, then the messages of the   *)
(* chunks before it.                                                       *)
(*                                                                         *)
(* A bag is its records, body before the index, and where the file ends:   *)
(* whole records are complete, and of the next one there is nothing, a     *)
(* part of its header, or the header and a part of its data.  A chunk is   *)
(* its messages and how its data unpacks: "sound"; "bad", what throws (an  *)
(* unsupported compression, a corrupt frame); or "short", a frame that     *)
(* ends early, whose missing bytes are zeros, a record without fields.     *)
(***************************************************************************)
EXTENDS Naturals, Sequences, SequencesExt

CONSTANT Bags  \* the files that may be read

\* A file: sequences of records, of messages in a chunk, and where it ends.
WellFormed(b) ==
    /\ b.body \in Seq(Range(b.body))
    /\ b.index \in Seq(Range(b.index))
    /\ \A r \in Range(b.body) : r.op = "chunk" => r.messages \in Seq(Range(r.messages))
    /\ b.whole \in 0..(Len(b.body) + Len(b.index))
    /\ b.rest # "none" => b.whole < Len(b.body) + Len(b.index)

VARIABLES
    bag,        \* the file
    topics,     \* conn_topics_
    filter,     \* the connections that read_messages() selects
    reader,     \* "closed", "scanning", "open", "reading", "chunk", "returned", "threw"
    pos,        \* the next record of the file
    inner,      \* the next record of the chunk at pos
    delivered   \* the messages passed to the callback, by record and place in the chunk

vars == <<bag, topics, filter, reader, pos, inner, delivered>>

Init ==
    /\ bag \in Bags
    /\ topics = <<>>
    /\ filter = {}
    /\ reader = "closed"
    /\ pos = 0
    /\ inner = 0
    /\ delivered = <<>>

Throw == reader' = "threw" /\ UNCHANGED <<bag, topics, filter, pos, inner, delivered>>

Record == (bag.body \o bag.index)[pos]

\* The header of the record at pos can be read, and the file is at its end.
HeaderThere == pos <= bag.whole \/ (pos = bag.whole + 1 /\ bag.rest = "data")
AtEnd == pos > bag.whole + 1 \/ (pos = bag.whole + 1 /\ bag.rest = "none")

-----------------------------------------------------------------------------
\* The constructor: the bag header says where the index is.  A bag whose
\* recording was cut off says 0, where there is no record.
Open ==
    /\ reader = "closed"
    /\ IF bag.version /\ bag.indexed
         THEN /\ reader' = "scanning"
              /\ pos' = Len(bag.body) + 1
              /\ UNCHANGED <<bag, topics, filter, inner, delivered>>
         ELSE Throw

\* scan_connections(), to the end of the file wherever that is.
ScanEnds ==
    /\ reader = "scanning"
    /\ AtEnd
    /\ reader' = "open"
    /\ UNCHANGED <<bag, topics, filter, pos, inner, delivered>>

ScanTorn == reader = "scanning" /\ ~AtEnd /\ ~HeaderThere /\ Throw

ScanRecord ==
    /\ reader = "scanning"
    /\ HeaderThere
    /\ topics' = IF Record.op = "connection"
                 THEN [c \in DOMAIN topics \union {Record.conn} |->
                          IF c = Record.conn THEN Record.topic ELSE topics[c]]
                 ELSE topics
    /\ pos' = pos + 1
    /\ UNCHANGED <<bag, filter, reader, inner, delivered>>

-----------------------------------------------------------------------------
Selected(wanted) == {c \in DOMAIN topics : topics[c] \in wanted}

\* read_messages(wanted).
BeginRead(wanted) ==
    /\ reader = "open"
    /\ filter' = Selected(wanted)
    /\ reader' = "reading"
    /\ pos' = 1
    /\ UNCHANGED <<bag, topics, inner, delivered>>

InBody == reader = "reading" /\ pos <= Len(bag.body)

Return ==
    /\ reader = "reading"
    /\ pos > Len(bag.body)
    /\ reader' = "returned"
    /\ UNCHANGED <<bag, topics, filter, pos, inner, delivered>>

\* A header that is not there, or a chunk that is cut or does not unpack.
ReadFails ==
    /\ InBody
    /\ \/ ~HeaderThere
       \/ Record.op = "chunk" /\ (pos > bag.whole \/ Record.unpacks = "bad")
    /\ Throw

SkipRecord ==
    /\ InBody
    /\ HeaderThere
    /\ Record.op # "chunk"
    /\ pos' = pos + 1
    /\ UNCHANGED <<bag, topics, filter, reader, inner, delivered>>

EnterChunk ==
    /\ InBody
    /\ HeaderThere
    /\ Record.op = "chunk"
    /\ pos <= bag.whole
    /\ Record.unpacks # "bad"
    /\ reader' = "chunk"
    /\ inner' = 1
    /\ UNCHANGED <<bag, topics, filter, pos, delivered>>

\* process_chunk().
InChunk == reader = "chunk" /\ inner <= Len(Record.messages)

Current == Record.messages[inner]

Callback == InChunk /\ Current.op = "message" /\ Current.conn \in filter

SkipMessage ==
    /\ InChunk
    /\ ~Callback
    /\ inner' = inner + 1
    /\ UNCHANGED <<bag, topics, filter, reader, pos, delivered>>

DeliverTwice ==  \* mutant
    /\ Callback
    /\ delivered' = Append(delivered, <<pos, inner>>)
    /\ UNCHANGED <<bag, topics, filter, reader, pos, inner>>

Deliver ==
    /\ Callback
    /\ delivered' = Append(delivered, <<pos, inner>>)
    /\ inner' = inner + 1
    /\ UNCHANGED <<bag, topics, filter, reader, pos>>

LeaveChunk ==
    /\ reader = "chunk"
    /\ inner > Len(Record.messages)
    /\ IF Record.unpacks = "short"
         THEN Throw
         ELSE /\ reader' = "reading"
              /\ pos' = pos + 1
              /\ UNCHANGED <<bag, topics, filter, inner, delivered>>

Scan == ScanEnds \/ ScanTorn \/ ScanRecord

\* What read_messages() does between two callbacks.
Read == Return \/ ReadFails \/ SkipRecord \/ EnterChunk \/ SkipMessage \/ LeaveChunk

-----------------------------------------------------------------------------
TypeOK ==
    /\ reader \in {"closed", "scanning", "open", "reading", "chunk", "returned", "threw"}
    /\ pos \in Nat /\ inner \in Nat
    /\ filter \subseteq DOMAIN topics
    /\ delivered \in Seq(Nat \X Nat)

\* The messages of a file on some connections, and their order in it.
MessagesIn(b, conns) ==
    LET chunks == {p \in 1..Len(b.body) : b.body[p].op = "chunk"}
    IN  UNION {{p} \X {i \in 1..Len(b.body[p].messages) :
                          /\ b.body[p].messages[i].op = "message"
                          /\ b.body[p].messages[i].conn \in conns} : p \in chunks}

MessagesOn(conns) == MessagesIn(bag, conns)

Before(m, n) == m[1] < n[1] \/ (m[1] = n[1] /\ m[2] < n[2])

Delivered == {delivered[k] : k \in 1..Len(delivered)}

\* The connections the file still names.
Named ==
    LET total == bag.body \o bag.index
        there == bag.whole + (IF bag.rest = "data" THEN 1 ELSE 0)
    IN  {total[k].conn : k \in {k \in (Len(bag.body) + 1)..there : total[k].op = "connection"}}

\* Wherever the file ends, the callback gets the messages of the selected
\* topics once each and in file order, and read_messages() returns without an
\* error only after all of them: a bag cut in its index loses whole
\* connections, one cut earlier throws or delivers nothing, and no frame that
\* ends early loses a message in silence (bag_reader.cpp:122-232).
MessagesWhole ==
    /\ \A k \in 1..Len(delivered) : \A j \in 1..(k - 1) : Before(delivered[j], delivered[k])
    /\ Delivered \subseteq MessagesOn(filter)
    /\ \A m \in MessagesOn(filter) \ Delivered :
           reader # "returned" /\ \A n \in Delivered : Before(n, m)
    /\ reader \in {"reading", "chunk", "returned"} => DOMAIN topics = Named
    /\ bag.whole < Len(bag.body) => delivered = <<>>
=============================================================================
