------------------------ MODULE SpacetimeLedgerProofs ------------------------
(***************************************************************************)
(* For any sessions, drivers, faults and interleavings: no history is ever *)
(* a broken hash chain (ChainsVerify) and every annotated coordinate       *)
(* points back at its block (CoordinatesPointBack).  Below, the same of    *)
(* the query cache, what it may return is fresh (CacheIsSound), and of the *)
(* geometry of coordinates: sweeps are whole and the nearest is found.     *)
(*                                                                         *)
(* The blocks hold weights that depend on the cache, about which these     *)
(* theorems need to know nothing; so the inductive invariant says only     *)
(* that all chains are sequences over some set S of blocks, and a step     *)
(* that appends a block adds it to S.                                      *)
(***************************************************************************)
EXTENDS SpacetimeLedger, QueryCache, Rigidity, LeastElements, TLAPS

Documents(S) == [Keys -> Seq(S) \cup {None}]

Shape(S) ==
  /\ content \in Documents(S)
  /\ open \subseteq Sessions
  /\ doc \in [Sessions -> Documents(S)]
  /\ key \in [Sessions -> Keys]
  /\ step \in [Sessions -> {"idle", "appended", "truncated"}]
  /\ coord \in [Sessions -> [Nodes -> Nat \cup {None}]]
  /\ \A s \in open : Chain(s) \in Seq(S)

\* A block that annotates a node names it.
NodeBlock(b) == b.payload[1] = "node" => b.payload = <<"node", b.payload[2]>> /\ b.payload[2] \in Nodes

NamesNodes(S) == \A b \in S : NodeBlock(b)

\* What a session in the middle of an append has just appended.
Underway(s) ==
  step[s] # "idle" =>
    /\ s \in open /\ Chain(s) # <<>>
    /\ Chain(s)[Len(Chain(s))].payload[1] = "node"
         => Chain(s)[Len(Chain(s))].t = Len(Chain(s)) - 1

PointsBack(s) ==
  \A n \in Nodes : coord[s][n] # None =>
    /\ coord[s][n] + 1 \in DOMAIN Chain(s)
    /\ Chain(s)[coord[s][n] + 1].payload = <<"node", n>>

Session(s) ==
  /\ Underway(s)
  /\ s \in open => DocumentVerifies(doc[s]) /\ Verifies(Chain(s)) /\ PointsBack(s)
  /\ s \notin open => \A n \in Nodes : coord[s][n] = None

IInv ==
  /\ \E S : Shape(S) /\ NamesNodes(S)
  /\ DocumentVerifies(content)
  /\ \A s \in Sessions : Session(s)

-----------------------------------------------------------------------------
(* Chains *)

\* A sequence over a set is one over a larger set.
LEMMA WiderSeq ==
  ASSUME NEW S, NEW b, NEW c \in Seq(S)
  PROVE  c \in Seq(S \cup {b})
  OBVIOUS

\* A chain that verifies and is extended by a block linked to its last one,
\* by the driver that wrote it, verifies.
LEMMA ExtendedVerifies ==
  ASSUME NEW S, NEW c \in Seq(S), Verifies(c), NEW b,
         b.prev = LastHash(c), b.hash = Hash(b.prev, Item(b)),
         c # <<>> => c[Len(c)].by = b.by
  PROVE  Verifies(Append(c, b))
<1> DEFINE d == Append(c, b)
<1>1. /\ Len(d) = Len(c) + 1 /\ DOMAIN d = 1 .. (Len(c) + 1)
      /\ d[Len(c) + 1] = b /\ \A i \in 1 .. Len(c) : d[i] = c[i]
      /\ DOMAIN c = 1 .. Len(c) /\ Len(c) \in Nat
  OBVIOUS
<1> SUFFICES ASSUME NEW i \in DOMAIN d
             PROVE  /\ d[i].prev = (IF i = 1 THEN <<>> ELSE d[i - 1].hash)
                    /\ d[i].hash = Hash(d[i].prev, Item(d[i]))
                    /\ d[i].by = d[1].by
  BY DEF Verifies
<1>2. CASE i \in 1 .. Len(c)
  <2>1. i # 1 => i - 1 \in 1 .. Len(c) /\ d[i - 1] = c[i - 1]
    BY <1>1, <1>2
  <2>2. d[i] = c[i] /\ d[1] = c[1] /\ i \in DOMAIN c
    BY <1>1, <1>2
  <2> QED BY <2>1, <2>2 DEF Verifies
<1>3. CASE i = Len(c) + 1
  <2>1. CASE c = <<>>
    BY <1>1, <1>3, <2>1 DEF LastHash
  <2>2. CASE c # <<>>
    <3>0. Len(c) >= 1
      BY <2>2
    <3>1. Len(c) \in DOMAIN c /\ d[i - 1] = c[Len(c)] /\ d[1] = c[1] /\ d[i] = b /\ i # 1
      BY <1>1, <1>3, <3>0
    <3>2. c[Len(c)].by = c[1].by
      BY <3>1 DEF Verifies
    <3> QED BY <3>1, <3>2, <2>2 DEF LastHash
  <2> QED BY <2>1, <2>2
<1> QED BY <1>1, <1>2, <1>3

\* The history of a new ledger verifies.
LEMMA EmptyVerifies == Verifies(<<>>)
  BY DEF Verifies

-----------------------------------------------------------------------------
(* Documents *)

\* What a driver reads is a document of chains that verify.
LEMMA ReadableDocument ==
  ASSUME NEW S, Shape(S), DocumentVerifies(content)
  PROVE  Readable \in Documents(S) /\ DocumentVerifies(Readable)
  BY DEF Shape, Readable, NoDocument, Documents, DocumentVerifies

\* A driver finds a history under its key, or makes an empty one.
LEMMA LoadedDocument ==
  ASSUME NEW S, NEW held \in Documents(S), DocumentVerifies(held)
  PROVE  /\ LoadKey(held) \in Keys /\ "mutation_history" \in Keys
         /\ LoadBlock(held) \in Documents(S) /\ DocumentVerifies(LoadBlock(held))
         /\ LoadBlock(held)[LoadKey(held)] \in Seq(S) /\ Verifies(LoadBlock(held)[LoadKey(held)])
         /\ LoadCrypto(held) \in Documents(S) /\ DocumentVerifies(LoadCrypto(held))
         /\ LoadCrypto(held)["mutation_history"] \in Seq(S)
         /\ Verifies(LoadCrypto(held)["mutation_history"])
<1>1. <<>> \in Seq(S) /\ Verifies(<<>>)
  BY EmptyVerifies
<1>2. LoadKey(held) \in Keys /\ "mutation_history" \in Keys
  BY DEF LoadKey, Keys
<1>3. LoadBlock(held) \in Documents(S) /\ DocumentVerifies(LoadBlock(held))
  BY <1>1 DEF LoadBlock, Documents, DocumentVerifies, Keys
<1>4. LoadBlock(held)[LoadKey(held)] \in Seq(S) /\ Verifies(LoadBlock(held)[LoadKey(held)])
  BY <1>1 DEF LoadBlock, LoadKey, Documents, DocumentVerifies, Keys
<1>5. LoadCrypto(held) \in Documents(S) /\ DocumentVerifies(LoadCrypto(held))
      /\ LoadCrypto(held)["mutation_history"] \in Seq(S)
      /\ Verifies(LoadCrypto(held)["mutation_history"])
  BY <1>1 DEF LoadCrypto, Documents, DocumentVerifies, Keys
<1> QED BY <1>2, <1>3, <1>4, <1>5

-----------------------------------------------------------------------------
(* The steps *)

\* A step of one session leaves the others as they are.
LEMMA OthersUnchanged ==
  ASSUME NEW r, Session(r), r \in open <=> r \in open', doc'[r] = doc[r],
         key'[r] = key[r], step'[r] = step[r], coord'[r] = coord[r]
  PROVE  Session(r)' /\ Chain(r)' = Chain(r)
<1>1. Chain(r)' = Chain(r)
  BY DEF Chain
<1> QED BY <1>1 DEF Session, Underway, PointsBack, DocumentVerifies

\* The file is absent or holds the genesis document.
LEMMA InitInv == Init => IInv
<1> SUFFICES ASSUME Init PROVE IInv
  OBVIOUS
<1>1. Shape({})
  <2>1. <<>> \in Seq({})
    OBVIOUS
  <2>2. content \in Documents({}) /\ NoDocument \in Documents({})
    BY <2>1 DEF Init, Documents, NoDocument, Genesis, Keys
  <2> QED BY <2>2 DEF Init, Shape, NoCoord, Keys
<1>2. DocumentVerifies(content)
  BY EmptyVerifies DEF Init, DocumentVerifies, NoDocument, Genesis, Keys
<1>3. ASSUME NEW s \in Sessions PROVE Session(s)
  BY DEF Init, Session, Underway, NoCoord
<1> QED BY <1>1, <1>2, <1>3 DEF IInv, NamesNodes

\* Making a driver of either kind.
LEMMA OpenPreserves ==
  ASSUME IInv, NEW s \in Sessions, OpenBlockLedger(s) \/ OpenCryptoLedger(s)
  PROVE  IInv'
<1>1. PICK S : Shape(S) /\ NamesNodes(S)
  BY DEF IInv
<1>2. PICK held \in Documents(S) :
        /\ DocumentVerifies(held)
        /\ \/ doc' = [doc EXCEPT ![s] = LoadBlock(held)] /\ key' = [key EXCEPT ![s] = LoadKey(held)]
           \/ doc' = [doc EXCEPT ![s] = LoadCrypto(held)] /\ key' = [key EXCEPT ![s] = "mutation_history"]
        /\ content' = content \/ content' = held
  <2>1. Readable \in Documents(S) /\ DocumentVerifies(Readable)
    BY <1>1, ReadableDocument DEF IInv
  <2>2. CASE OpenCryptoLedger(s)
    BY <2>1, <2>2 DEF OpenCryptoLedger
  <2>3. CASE OpenBlockLedger(s)
    <3> DEFINE empty == [NoDocument EXCEPT !["ledger"] = <<>>]
    <3>1. empty \in Documents(S) /\ DocumentVerifies(empty)
      <4>1. <<>> \in Seq(S)
        OBVIOUS
      <4> QED BY <4>1, EmptyVerifies DEF NoDocument, Documents, DocumentVerifies, Keys
    <3>2. CASE disk = "absent"
      BY <2>3, <3>1, <3>2 DEF OpenBlockLedger
    <3>3. CASE disk # "absent"
      BY <2>1, <2>3, <3>3 DEF OpenBlockLedger
    <3> QED BY <3>2, <3>3
  <2> QED BY <2>2, <2>3
<1>3. /\ doc' \in [Sessions -> Documents(S)] /\ key' \in [Sessions -> Keys]
      /\ DocumentVerifies(doc'[s]) /\ doc'[s][key'[s]] \in Seq(S) /\ Verifies(doc'[s][key'[s]])
      /\ \A r \in Sessions \ {s} : doc'[r] = doc[r] /\ key'[r] = key[r]
  <2>1. PICK d, k : /\ doc' = [doc EXCEPT ![s] = d] /\ key' = [key EXCEPT ![s] = k]
                    /\ d \in Documents(S) /\ k \in Keys /\ DocumentVerifies(d)
                    /\ d[k] \in Seq(S) /\ Verifies(d[k])
    BY <1>2, LoadedDocument
  <2>2. doc \in [Sessions -> Documents(S)] /\ key \in [Sessions -> Keys]
    BY <1>1 DEF Shape
  <2>3. doc'[s] = d /\ key'[s] = k
    BY <2>1, <2>2
  <2> QED BY <2>1, <2>2, <2>3
<1>4. /\ step' = step /\ step[s] = "idle" /\ \A n \in Nodes : coord[s][n] = None
      /\ open' = open \cup {s}
  BY <1>1 DEF IInv, Session, Underway, OpenBlockLedger, OpenCryptoLedger, MayOpen, Shape
<1>5. /\ coord' \in [Sessions -> [Nodes -> Nat \cup {None}]]
      /\ \A n \in Nodes : coord'[s][n] = None
      /\ \A r \in Sessions \ {s} : coord'[r] = coord[r]
  BY <1>1, <1>4 DEF OpenBlockLedger, OpenCryptoLedger, NoCoord, Shape
<1>6. DocumentVerifies(content)'
  BY <1>2 DEF IInv, DocumentVerifies
<1>7. Session(s)'
  BY <1>3, <1>4, <1>5 DEF Session, Underway, PointsBack, DocumentVerifies, Chain
<1>8. ASSUME NEW r \in Sessions \ {s} PROVE Session(r)' /\ Chain(r)' = Chain(r)
  BY <1>3, <1>4, <1>5, OthersUnchanged DEF IInv
<1>9. Shape(S)'
  BY <1>1, <1>2, <1>3, <1>4, <1>5, <1>8 DEF Shape, Chain
<1> QED BY <1>1, <1>6, <1>7, <1>8, <1>9 DEF IInv, NamesNodes, NodeBlock

\* The end of a session, in order or not.
LEMMA LeavesPreserves ==
  ASSUME IInv, NEW s \in Sessions, Leaves(s), content' = content
  PROVE  IInv'
<1>1. PICK S : Shape(S) /\ NamesNodes(S)
  BY DEF IInv
<1>2. Session(s)'
  BY <1>1 DEF Leaves, Shape, NoCoord, Session, Underway
<1>3. ASSUME NEW r \in Sessions \ {s} PROVE Session(r)' /\ Chain(r)' = Chain(r)
  <2>1. doc'[r] = doc[r] /\ key'[r] = key[r] /\ step'[r] = step[r] /\ coord'[r] = coord[r]
        /\ (r \in open' <=> r \in open)
    BY <1>1 DEF Leaves, Shape
  <2> QED BY <2>1, OthersUnchanged DEF IInv
<1>4. Shape(S)'
  <2>1. NoDocument \in Documents(S)
    BY DEF NoDocument, Documents
  <2> QED BY <1>1, <1>3, <2>1 DEF Leaves, Shape, NoCoord
<1>5. DocumentVerifies(content)'
  BY DEF IInv, DocumentVerifies
<1> QED BY <1>1, <1>2, <1>3, <1>4, <1>5 DEF IInv, NamesNodes, NodeBlock

\* Appending a block that names its own index to the history in memory.
LEMMA AppendPreserves ==
  ASSUME IInv, NEW s \in Sessions, Ready(s), NEW b, Appends(s, b), NodeBlock(b),
         b.by = DriverOf[s], b.prev = LastHash(Chain(s)), b.hash = Hash(b.prev, Item(b)),
         b.payload[1] = "node" => b.t = Len(Chain(s))
  PROVE  IInv'
<1>1. PICK S : Shape(S) /\ NamesNodes(S)
  BY DEF IInv
<1> DEFINE T == S \cup {b}
           c == Chain(s)
           d == Append(c, b)
<1>2. /\ doc[s] \in Documents(S) /\ key[s] \in Keys /\ c \in Seq(S)
      /\ DocumentVerifies(doc[s]) /\ s \in open
  BY <1>1 DEF Ready, IInv, Session, Shape
<1>3. Verifies(c)
  BY <1>2 DEF IInv, Session
<1>4. Verifies(d)
  <2>1. c # <<>> => c[Len(c)].by = b.by
    BY DEF Appends, Extensible
  <2> QED BY <1>2, <1>3, <2>1, ExtendedVerifies
<1>5. d \in Seq(T) /\ d # <<>> /\ Len(d) = Len(c) + 1 /\ d[Len(d)] = b /\ Len(c) \in Nat
      /\ \A i \in DOMAIN c : i \in DOMAIN d /\ d[i] = c[i]
  <2>1. c \in Seq(T)
    BY <1>2, WiderSeq
  <2> QED BY <1>2, <2>1
<1>6. \A f \in Documents(S) : f \in Documents(T)
  BY WiderSeq DEF Documents
<1>7. /\ doc' = [doc EXCEPT ![s] = [doc[s] EXCEPT ![key[s]] = d]]
      /\ step' = [step EXCEPT ![s] = "appended"]
      /\ content' = content /\ key' = key /\ coord' = coord /\ open' = open
  BY DEF Appends
<1>8. ASSUME NEW r \in Sessions, r \in open PROVE Chain(r) \in Seq(T)
  BY <1>1, <1>8, WiderSeq DEF Shape
<1> HIDE DEF c, d, T
<1>9. [doc[s] EXCEPT ![key[s]] = d] \in Documents(T)
  BY <1>2, <1>5, <1>6 DEF Documents
<1>10. /\ doc' \in [Sessions -> Documents(T)]
       /\ doc'[s] = [doc[s] EXCEPT ![key[s]] = d]
       /\ \A r \in Sessions \ {s} : doc'[r] = doc[r]
  BY <1>1, <1>6, <1>7, <1>9 DEF Shape
<1>11. Chain(s)' = d
  BY <1>2, <1>7, <1>10 DEF Chain, Documents
<1>12. DocumentVerifies(doc'[s])
  BY <1>2, <1>4, <1>10 DEF DocumentVerifies, Documents
<1>13. Session(s)'
  <2>1. Underway(s)'
    BY <1>2, <1>5, <1>7, <1>11 DEF Underway, c
  <2>2. PointsBack(s)'
    <3>1. PointsBack(s) /\ coord'[s] = coord[s]
      BY <1>2, <1>7 DEF IInv, Session
    <3> QED BY <1>5, <1>11, <3>1 DEF PointsBack, c
  <2> QED BY <1>2, <1>7, <1>4, <1>11, <1>12, <2>1, <2>2 DEF Session, DocumentVerifies
<1>14. ASSUME NEW r \in Sessions \ {s} PROVE Session(r)' /\ Chain(r)' = Chain(r)
  <2>1. step'[r] = step[r]
    BY <1>1, <1>7 DEF Shape
  <2> QED BY <1>7, <1>10, <2>1, OthersUnchanged DEF IInv
<1>15. Shape(T)'
  <2>1. \A r \in open' : Chain(r)' \in Seq(T)
    BY <1>1, <1>5, <1>7, <1>8, <1>11, <1>14 DEF Shape
  <2> QED BY <1>1, <1>6, <1>7, <1>10, <2>1 DEF Shape
<1>16. NamesNodes(T)
  BY <1>1 DEF NamesNodes, T
<1>17. DocumentVerifies(content)'
  BY <1>7 DEF IInv, DocumentVerifies
<1> QED BY <1>13, <1>14, <1>15, <1>16, <1>17 DEF IInv, NamesNodes, NodeBlock

\* The three operations that append, each with the block it appends.
LEMMA OperationsPreserve ==
  ASSUME IInv, NEW s \in Sessions,
         \/ \E n \in Nodes : AnnotateNode(s, n)
         \/ \E g \in Signatures : RecordPathIntegral(s, g)
         \/ \E m \in Genomes : AppendEntry(s, m)
  PROVE  IInv'
<1>1. CASE \E n \in Nodes : AnnotateNode(s, n)
  <2>1. PICK n \in Nodes : AnnotateNode(s, n)
    BY <1>1
  <2>2. PICK b : b = Block(Chain(s), <<"node", n>>)
    OBVIOUS
  <2>3. /\ b.by = "block" /\ b.t = Len(Chain(s)) /\ b.payload = <<"node", n>>
        /\ b.prev = LastHash(Chain(s)) /\ b.hash = Hash(b.prev, Item(b))
    BY <2>2 DEF Block, Item
  <2>4. NodeBlock(b)
    BY <2>3 DEF NodeBlock
  <2> QED BY <2>1, <2>2, <2>3, <2>4, AppendPreserves DEF AnnotateNode
<1>2. CASE \E g \in Signatures : RecordPathIntegral(s, g)
  <2>1. PICK g \in Signatures : RecordPathIntegral(s, g)
    BY <1>2
  <2>2. PICK w, b : w = Reinforced(s, g).weight /\ b = Block(Chain(s), <<"sig", g, w>>)
    OBVIOUS
  <2>3. /\ b.by = "block" /\ b.payload[1] = "sig"
        /\ b.prev = LastHash(Chain(s)) /\ b.hash = Hash(b.prev, Item(b))
    BY <2>2 DEF Block, Item
  <2>4. NodeBlock(b) /\ b.payload[1] # "node"
    BY <2>3 DEF NodeBlock
  <2> QED BY <2>1, <2>2, <2>3, <2>4, AppendPreserves DEF RecordPathIntegral
<1>3. CASE \E m \in Genomes : AppendEntry(s, m)
  <2>1. PICK m \in Genomes : AppendEntry(s, m)
    BY <1>3
  <2>2. PICK b : b = Entry(Chain(s), <<"genome", m>>)
    OBVIOUS
  <2>3. /\ b.by = "crypto" /\ b.payload[1] = "genome"
        /\ b.prev = LastHash(Chain(s)) /\ b.hash = Hash(b.prev, Item(b))
    BY <2>2 DEF Entry, Item
  <2>4. NodeBlock(b) /\ b.payload[1] # "node"
    BY <2>3 DEF NodeBlock
  <2> QED BY <2>1, <2>2, <2>3, <2>4, AppendPreserves DEF AppendEntry
<1> QED BY <1>1, <1>2, <1>3

\* The three steps of the write leave the history in memory as it is; the last
\* one makes it the content of the file.
LEMMA PersistPreserves ==
  ASSUME IInv, NEW s \in Sessions, Truncate(s) \/ Flush(s) \/ SwallowError(s)
  PROVE  IInv'
<1>1. PICK S : Shape(S) /\ NamesNodes(S)
  BY DEF IInv
<1>2. /\ open' = open /\ doc' = doc /\ key' = key
      /\ step' \in [Sessions -> {"idle", "appended", "truncated"}]
      /\ \A r \in Sessions \ {s} : step'[r] = step[r]
      /\ coord' = coord \/ Flush(s)
  BY <1>1 DEF Truncate, Flush, SwallowError, Shape
<1>3. step[s] # "idle" /\ s \in open /\ Session(s)
  BY DEF Truncate, Flush, SwallowError, IInv, Session, Underway
<1> DEFINE c    == Chain(s)
           last == c[Len(c)]
<1>4. c \in Seq(S) /\ c # <<>> /\ Len(c) \in DOMAIN c /\ Len(c) \in Nat \ {0} /\ last \in S
  <2>1. c \in Seq(S) /\ c # <<>>
    BY <1>1, <1>3 DEF Shape, Session, Underway
  <2>2. Len(c) \in Nat /\ Len(c) # 0 /\ DOMAIN c = 1 .. Len(c)
    BY <2>1
  <2> QED BY <2>1, <2>2
<1>5. /\ coord' \in [Sessions -> [Nodes -> Nat \cup {None}]]
      /\ \A r \in Sessions \ {s} : coord'[r] = coord[r]
      /\ coord'[s] = coord[s] \/
           \E n \in Nodes : /\ coord'[s] = [coord[s] EXCEPT ![n] = Len(c) - 1]
                            /\ last.payload = <<"node", n>>
  <2>1. CASE coord' = coord
    BY <1>1, <2>1 DEF Shape
  <2>2. CASE Flush(s) /\ last.payload[1] # "node"
    BY <1>1, <2>2 DEF Flush, Annotated, Shape
  <2>3. CASE Flush(s) /\ last.payload[1] = "node"
    <3>1. last.payload = <<"node", last.payload[2]>> /\ last.payload[2] \in Nodes
      BY <1>1, <1>4, <2>3 DEF NamesNodes, NodeBlock
    <3>2. last.t = Len(c) - 1 /\ last.t \in Nat
      BY <1>3, <1>4, <2>3 DEF Session, Underway
    <3>3. coord' = [coord EXCEPT ![s] = [coord[s] EXCEPT ![last.payload[2]] = last.t]]
      BY <2>3 DEF Flush, Annotated
    <3> HIDE DEF last
    <3>4. coord \in [Sessions -> [Nodes -> Nat \cup {None}]]
      BY <1>1 DEF Shape
    <3>5. coord'[s] = [coord[s] EXCEPT ![last.payload[2]] = last.t]
      BY <3>3, <3>4
    <3> QED BY <3>1, <3>2, <3>3, <3>4, <3>5
  <2> QED BY <1>2, <2>1, <2>2, <2>3
<1>6. DocumentVerifies(content)'
  <2>1. content' = content \/ content' = doc[s]
    BY DEF Truncate, Flush, SwallowError
  <2> QED BY <1>3, <2>1 DEF IInv, Session, DocumentVerifies
<1>7. Session(s)'
  <2>1. Chain(s)' = Chain(s)
    BY <1>2 DEF Chain
  <2>2. Underway(s)'
    BY <1>2, <1>3, <2>1 DEF Underway, Session
  <2>3. PointsBack(s)'
    <3>1. PointsBack(s)
      BY <1>3 DEF Session
    <3>2. CASE coord'[s] = coord[s]
      BY <2>1, <3>1, <3>2 DEF PointsBack
    <3>3. CASE \E n \in Nodes : /\ coord'[s] = [coord[s] EXCEPT ![n] = Len(c) - 1]
                                /\ last.payload = <<"node", n>>
      <4>1. PICK n \in Nodes : /\ coord'[s] = [coord[s] EXCEPT ![n] = Len(c) - 1]
                               /\ last.payload = <<"node", n>>
        BY <3>3
      <4>2. coord[s] \in [Nodes -> Nat \cup {None}]
        BY <1>1 DEF Shape
      <4>3. coord'[s][n] = Len(c) - 1 /\ \A m \in Nodes \ {n} : coord'[s][m] = coord[s][m]
        BY <4>1, <4>2
      <4>4. Len(c) - 1 + 1 = Len(c)
        BY <1>4
      <4> QED BY <1>4, <2>1, <3>1, <4>1, <4>3, <4>4 DEF PointsBack
    <3> QED BY <1>5, <3>2, <3>3
  <2> QED BY <1>2, <1>3, <2>1, <2>2, <2>3 DEF Session, DocumentVerifies
<1>8. ASSUME NEW r \in Sessions \ {s} PROVE Session(r)' /\ Chain(r)' = Chain(r)
  BY <1>2, <1>5, OthersUnchanged DEF IInv
<1>9. Shape(S)'
  <2>1. content' \in Documents(S)
    BY <1>1 DEF Truncate, Flush, SwallowError, Shape
  <2>2. \A r \in open' : Chain(r)' \in Seq(S)
    BY <1>1, <1>2 DEF Shape, Chain
  <2> QED BY <1>1, <1>2, <1>5, <2>1, <2>2 DEF Shape
<1> QED BY <1>1, <1>6, <1>7, <1>8, <1>9 DEF IInv, NamesNodes, NodeBlock

\* context_init writes a document with an empty history.
LEMMA InitializePreserves ==
  ASSUME IInv, InitializeWorkspace
  PROVE  IInv'
<1>1. PICK S : Shape(S) /\ NamesNodes(S)
  BY DEF IInv
<1>2. content' \in Documents(S) /\ DocumentVerifies(content)'
  <2>1. <<>> \in Seq(S)
    OBVIOUS
  <2> QED BY <2>1, EmptyVerifies
          DEF InitializeWorkspace, Genesis, NoDocument, Documents, DocumentVerifies, Keys
<1>3. ASSUME NEW r \in Sessions PROVE Session(r)' /\ Chain(r)' = Chain(r)
  <2>1. open' = open /\ doc' = doc /\ key' = key /\ step' = step /\ coord' = coord
    BY DEF InitializeWorkspace
  <2> QED BY <2>1, OthersUnchanged DEF IInv
<1>4. Shape(S)'
  BY <1>1, <1>2, <1>3 DEF InitializeWorkspace, Shape
<1> QED BY <1>1, <1>2, <1>3, <1>4 DEF IInv, NamesNodes, NodeBlock

\* Every operation and every fault preserves the invariant.
LEMMA StepInv == IInv /\ [Next]_vars => IInv'
<1> SUFFICES ASSUME IInv, [Next]_vars PROVE IInv'
  OBVIOUS
<1>1. CASE InitializeWorkspace
  BY <1>1, InitializePreserves
<1>2. ASSUME NEW s \in Sessions, OpenBlockLedger(s) \/ OpenCryptoLedger(s) PROVE IInv'
  BY <1>2, OpenPreserves
<1>3. ASSUME NEW s \in Sessions, Close(s) \/ AppendRaises(s) \/ Crash(s) PROVE IInv'
  <2>1. Leaves(s) /\ content' = content
    BY <1>3 DEF Close, AppendRaises, Crash
  <2> QED BY <2>1, LeavesPreserves
<1>4. ASSUME NEW s \in Sessions,
             \/ \E n \in Nodes : AnnotateNode(s, n)
             \/ \E g \in Signatures : RecordPathIntegral(s, g)
             \/ \E m \in Genomes : AppendEntry(s, m)
      PROVE  IInv'
  BY <1>4, OperationsPreserve
<1>5. ASSUME NEW s \in Sessions, Truncate(s) \/ Flush(s) \/ SwallowError(s) PROVE IInv'
  BY <1>5, PersistPreserves
<1>6. CASE UNCHANGED vars
  <2>1. PICK S : Shape(S) /\ NamesNodes(S)
    BY DEF IInv
  <2>2. ASSUME NEW r \in Sessions PROVE Session(r)' /\ Chain(r)' = Chain(r)
    BY <1>6, OthersUnchanged DEF IInv, vars
  <2>3. Shape(S)'
    BY <1>6, <2>1, <2>2 DEF Shape, vars
  <2>4. DocumentVerifies(content)'
    BY <1>6 DEF IInv, DocumentVerifies, vars
  <2> QED BY <2>1, <2>2, <2>3, <2>4 DEF IInv, NamesNodes, NodeBlock
<1> QED BY <1>1, <1>2, <1>3, <1>4, <1>5, <1>6 DEF Next

\* The invariant is as strong as the two properties.
LEMMA InvImplies == IInv => ChainsVerify /\ CoordinatesPointBack
<1> SUFFICES ASSUME IInv PROVE ChainsVerify /\ CoordinatesPointBack
  OBVIOUS
<1>1. open \subseteq Sessions
  BY DEF IInv, Shape
<1> QED BY <1>1 DEF IInv, Session, PointsBack, ChainsVerify, CoordinatesPointBack

\* verify_integrity never fails on a history the drivers made, whatever the
\* sessions, their order and their faults.
THEOREM HistoriesVerify == Spec => []ChainsVerify
<1>1. IInv => ChainsVerify
  BY InvImplies
<1> QED BY InitInv, StepInv, <1>1, PTL DEF Spec

\* An annotated node's T_causal is the index of its block in the history of
\* the session that annotated it.
THEOREM CoordinatesAreIndices == Spec => []CoordinatesPointBack
<1>1. IInv => CoordinatesPointBack
  BY InvImplies
<1> QED BY InitInv, StepInv, <1>1, PTL DEF Spec

-----------------------------------------------------------------------------
(* Processes that take turns and live *)

\* What one document holds, another holds too, at the same places.
Extends(c, d) ==
  \A k \in Keys : c[k] # None =>
    /\ d[k] # None
    /\ Len(c[k]) <= Len(d[k])
    /\ \A i \in DOMAIN c[k] : d[k][i] = c[k][i]

\* None stands for a missing key, which is not a history.  TLC cannot evaluate
\* this, for it is about every set, so it is a hypothesis of the theorem.
NoneIsNoHistory == \A S : None \notin Seq(S)

Truncated == \E s \in Sessions : step[s] = "truncated"

\* One process at a time holds a driver, what it holds extends the file, and
\* the file is whole but for the time between its truncation and its write.
InTurns ==
  /\ \A r, s \in open : r = s
  /\ \A s \in open : Extends(content, doc[s])
  /\ Truncated => disk = "empty"
  /\ ~Truncated => disk \in {"absent", "whole"}
  /\ disk = "absent" => content = NoDocument

TurnsInv == may = {} => InTurns

\* A document extends itself.
LEMMA ExtendsItself ==
  ASSUME NEW S, NEW c \in Documents(S)
  PROVE  Extends(c, c)
<1> SUFFICES ASSUME NEW k \in Keys, c[k] # None PROVE Len(c[k]) <= Len(c[k])
  BY DEF Extends
<1>1. c[k] \in Seq(S)
  BY DEF Documents
<1>2. Len(c[k]) \in Nat
  BY <1>1
<1> QED BY <1>2

\* A document that gains an empty history extends what it was.
LEMMA EmptiesExtend ==
  ASSUME NoneIsNoHistory, NEW S, NEW c \in Documents(S), NEW k \in Keys, c[k] = None
  PROVE  Extends(c, [c EXCEPT ![k] = <<>>])
<1> SUFFICES ASSUME NEW j \in Keys, c[j] # None
             PROVE  /\ [c EXCEPT ![k] = <<>>][j] = c[j]
                    /\ Len(c[j]) <= Len(c[j])
  BY DEF Extends
<1>1. Len(c[j]) <= Len(c[j])
  BY ExtendsItself DEF Extends
<1> QED BY <1>1 DEF Documents

\* A history that was extended in memory still extends the file.
LEMMA BlocksExtend ==
  ASSUME NoneIsNoHistory, NEW S, NEW c \in Documents(S), NEW d \in Documents(S), Extends(c, d),
         NEW k \in Keys, d[k] \in Seq(S), NEW b, NEW e, e = Append(d[k], b)
  PROVE  Extends(c, [d EXCEPT ![k] = e])
<1> SUFFICES ASSUME NEW j \in Keys, c[j] # None
             PROVE  /\ [d EXCEPT ![k] = e][j] # None
                    /\ Len(c[j]) <= Len([d EXCEPT ![k] = e][j])
                    /\ \A i \in DOMAIN c[j] : [d EXCEPT ![k] = e][j][i] = c[j][i]
  BY DEF Extends
<1>0. e # None
  <2>1. d[k] \in Seq(S \cup {b})
    BY WiderSeq
  <2>2. e \in Seq(S \cup {b})
    BY <2>1
  <2> QED BY <2>2 DEF NoneIsNoHistory
<1>1. /\ d[j] # None /\ Len(c[j]) <= Len(d[j]) /\ c[j] \in Seq(S)
      /\ \A i \in DOMAIN c[j] : d[j][i] = c[j][i]
  BY DEF Extends, Documents
<1>2. CASE j # k
  BY <1>1, <1>2 DEF Documents
<1>3. CASE j = k
  <2>1. [d EXCEPT ![k] = e][j] = e
    BY <1>3 DEF Documents
  <2>2. /\ Len(e) = Len(d[j]) + 1 /\ Len(d[j]) \in Nat /\ Len(c[j]) \in Nat
        /\ \A i \in 1 .. Len(d[j]) : e[i] = d[j][i]
    BY <1>1, <1>3
  <2>3. DOMAIN c[j] \subseteq 1 .. Len(d[j])
    BY <1>1, <2>2
  <2> QED BY <1>0, <1>1, <2>1, <2>2, <2>3
<1> QED BY <1>2, <1>3

\* What a driver makes of the document it reads extends that document.
LEMMA LoadExtends ==
  ASSUME NoneIsNoHistory, NEW S, NEW held \in Documents(S)
  PROVE  Extends(held, LoadBlock(held)) /\ Extends(held, LoadCrypto(held))
<1>1. Extends(held, LoadBlock(held))
  <2>1. CASE held[LoadKey(held)] # None
    BY <2>1, ExtendsItself DEF LoadBlock
  <2>2. CASE held[LoadKey(held)] = None
    <3>1. held["ledger"] = None /\ "ledger" \in Keys
      BY <2>2 DEF LoadKey, Keys
    <3> QED BY <2>2, <3>1, EmptiesExtend DEF LoadBlock
  <2> QED BY <2>1, <2>2
<1>2. Extends(held, LoadCrypto(held))
  <2>1. "mutation_history" \in Keys
    BY DEF Keys
  <2> QED BY <2>1, ExtendsItself, EmptiesExtend DEF LoadCrypto
<1> QED BY <1>1, <1>2

\* Nobody holds a driver in the first state.
LEMMA InitTurns == Init => TurnsInv
BY DEF Init, TurnsInv, InTurns, Truncated

\* Only a session that holds a driver is in the middle of an append.
LEMMA TruncatedIsOpen ==
  ASSUME IInv, NEW s \in Sessions, step[s] # "idle"
  PROVE  s \in open
BY DEF IInv, Session, Underway

\* Making a driver, alone: the file is whole, or there is none.
LEMMA OpenInTurns ==
  ASSUME NoneIsNoHistory, IInv, InTurns, may = {}, NEW s \in Sessions,
         OpenBlockLedger(s) \/ OpenCryptoLedger(s)
  PROVE  InTurns' /\ Extends(content, content')
<1>1. PICK S : Shape(S) /\ NamesNodes(S)
  BY DEF IInv
<1>2. open = {} /\ open' = {s} /\ step' = step
  BY DEF OpenBlockLedger, OpenCryptoLedger, MayOpen
<1>3. ~Truncated /\ ~Truncated'
  BY <1>2, TruncatedIsOpen DEF Truncated
<1>4. Readable = content /\ content \in Documents(S) /\ doc \in [Sessions -> Documents(S)]
  BY <1>1, <1>3 DEF InTurns, Readable, Shape
<1>5. CASE OpenCryptoLedger(s)
  <2>1. doc'[s] = LoadCrypto(content) /\ content' = content /\ disk' = disk
    BY <1>4, <1>5 DEF OpenCryptoLedger
  <2>2. Extends(content, content') /\ Extends(content', doc'[s])
    BY <1>4, <2>1, LoadExtends, ExtendsItself
  <2> QED BY <1>2, <1>3, <2>1, <2>2 DEF InTurns
<1>6. CASE OpenBlockLedger(s)
  <2> DEFINE held == IF disk = "absent" THEN [NoDocument EXCEPT !["ledger"] = <<>>] ELSE content
  <2>1. /\ doc'[s] = LoadBlock(held) /\ content' = held /\ disk' = "whole"
    BY <1>3, <1>4, <1>6 DEF OpenBlockLedger, InTurns
  <2>2. held \in Documents(S) /\ Extends(content, held)
    <3>1. CASE disk = "absent"
      <4>1. content = NoDocument /\ "ledger" \in Keys /\ NoDocument["ledger"] = None
        BY <3>1 DEF InTurns, NoDocument, Keys
      <4>2. <<>> \in Seq(S)
        OBVIOUS
      <4> QED BY <1>4, <3>1, <4>1, <4>2, EmptiesExtend DEF Documents
    <3>2. CASE disk # "absent"
      BY <1>4, <3>2, ExtendsItself
    <3> QED BY <3>1, <3>2
  <2> HIDE DEF held
  <2>3. Extends(content', doc'[s])
    BY <2>1, <2>2, LoadExtends
  <2> QED BY <1>2, <1>3, <2>1, <2>2, <2>3 DEF InTurns
<1> QED BY <1>5, <1>6

\* A session that is over: it was not in the middle of an append.
LEMMA CloseInTurns ==
  ASSUME IInv, InTurns, NEW s \in Sessions, Close(s) \/ AppendRaises(s)
  PROVE  InTurns' /\ content' = content
<1>1. /\ s \in open /\ step[s] = "idle" /\ UNCHANGED <<disk, content>>
      /\ open' = open \ {s} /\ step' = [step EXCEPT ![s] = "idle"]
      /\ doc' = [doc EXCEPT ![s] = NoDocument]
  BY DEF Close, AppendRaises, Ready, Leaves
<1>2. PICK S : Shape(S)
  BY DEF IInv
<1>3. \A r \in Sessions : step'[r] = step[r]
  BY <1>1, <1>2 DEF Shape
<1>4. \A r \in open' : r \in open /\ doc'[r] = doc[r]
  BY <1>1, <1>2 DEF Shape
<1> QED BY <1>1, <1>3, <1>4 DEF InTurns, Truncated

\* A block that is appended in memory only.
LEMMA AppendInTurns ==
  ASSUME NoneIsNoHistory, IInv, InTurns, NEW s \in Sessions, NEW b, Ready(s), Appends(s, b)
  PROVE  InTurns' /\ content' = content
<1>1. PICK S : Shape(S)
  BY DEF IInv
<1>2. /\ s \in open /\ open' = open /\ step[s] = "idle" /\ step' = [step EXCEPT ![s] = "appended"]
      /\ UNCHANGED <<disk, content>>
      /\ doc' = [doc EXCEPT ![s] = [doc[s] EXCEPT ![key[s]] = Append(Chain(s), b)]]
  BY DEF Appends, Ready
<1>3. PICK e : e = Append(doc[s][key[s]], b)
  OBVIOUS
<1>4. doc[s] \in Documents(S) /\ key[s] \in Keys /\ doc[s][key[s]] \in Seq(S) /\ content \in Documents(S)
  BY <1>1, <1>2 DEF Shape, Chain
<1>5. Extends(content, [doc[s] EXCEPT ![key[s]] = e])
  BY <1>2, <1>3, <1>4, BlocksExtend DEF InTurns
<1>6. doc'[s] = [doc[s] EXCEPT ![key[s]] = e]
  BY <1>1, <1>2, <1>3 DEF Shape, Chain
<1>7. \A r \in open' : r = s
  BY <1>2 DEF InTurns
<1>8. Truncated' <=> Truncated
  BY <1>1, <1>2 DEF Shape, Truncated
<1> QED BY <1>2, <1>5, <1>6, <1>7, <1>8 DEF InTurns

\* The write: the file is truncated, and then holds what the only session holds.
LEMMA WriteInTurns ==
  ASSUME IInv, InTurns, NEW s \in Sessions, Truncate(s) \/ Flush(s)
  PROVE  InTurns' /\ Extends(content, content')
<1>1. PICK S : Shape(S)
  BY DEF IInv
<1>2. s \in open /\ \A r \in open : r = s
  BY TruncatedIsOpen DEF InTurns, Truncate, Flush
<1>3. content \in Documents(S) /\ doc[s] \in Documents(S) /\ Extends(content, doc[s])
  BY <1>1, <1>2 DEF Shape, InTurns
<1>4. CASE Truncate(s)
  <2>1. Truncated'
    BY <1>1, <1>4 DEF Truncate, Truncated, Shape
  <2>2. content' = content /\ doc' = doc /\ open' = open /\ disk' = "empty"
    BY <1>4 DEF Truncate
  <2> QED BY <1>3, <2>1, <2>2, ExtendsItself DEF InTurns
<1>5. CASE Flush(s)
  <2>1. disk = "empty"
    BY <1>5 DEF Flush, InTurns, Truncated
  <2>2. content' = doc[s] /\ doc' = doc /\ open' = open /\ disk' = "whole"
    BY <1>5, <2>1 DEF Flush
  <2>3. ~Truncated'
    <3>1. step' = [step EXCEPT ![s] = "idle"]
      BY <1>5 DEF Flush
    <3>2. \A r \in Sessions : step'[r] = "truncated" => r \in open /\ r # s
      BY <1>1, <3>1, TruncatedIsOpen DEF Shape
    <3> QED BY <1>2, <3>2 DEF Truncated
  <2>4. Extends(content', doc'[s])
    BY <1>3, <2>2, ExtendsItself
  <2> QED BY <1>2, <1>3, <2>2, <2>3, <2>4 DEF InTurns
<1> QED BY <1>4, <1>5

\* Every step of processes that take turns keeps what the file holds.
LEMMA TurnsStep ==
  ASSUME NoneIsNoHistory, IInv, TurnsInv, [Next]_vars
  PROVE  TurnsInv' /\ (may = {} => Extends(content, content'))
<1>1. may' = may
  BY DEF Next, vars, InitializeWorkspace, OpenBlockLedger, OpenCryptoLedger, Close, AnnotateNode,
         RecordPathIntegral, AppendEntry, Appends, AppendRaises, Truncate, Flush, Crash, SwallowError
<1> SUFFICES ASSUME may = {} PROVE InTurns' /\ Extends(content, content')
  BY <1>1 DEF TurnsInv
<1>2. PICK S : Shape(S)
  BY DEF IInv
<1>3. InTurns /\ Extends(content, content)
  BY <1>2, ExtendsItself DEF TurnsInv, Shape
<1>4. ASSUME NEW s \in Sessions, OpenBlockLedger(s) \/ OpenCryptoLedger(s)
      PROVE  InTurns' /\ Extends(content, content')
  BY <1>3, <1>4, OpenInTurns
<1>5. ASSUME NEW s \in Sessions, Close(s) \/ AppendRaises(s)
      PROVE  InTurns' /\ Extends(content, content')
  BY <1>3, <1>5, CloseInTurns
<1>6. ASSUME NEW s \in Sessions,
             \/ \E n \in Nodes : AnnotateNode(s, n)
             \/ \E g \in Signatures : RecordPathIntegral(s, g)
             \/ \E m \in Genomes : AppendEntry(s, m)
      PROVE  InTurns' /\ Extends(content, content')
  <2>1. PICK b : Ready(s) /\ Appends(s, b)
    BY <1>6 DEF AnnotateNode, RecordPathIntegral, AppendEntry
  <2> QED BY <1>3, <2>1, AppendInTurns
<1>7. ASSUME NEW s \in Sessions, Truncate(s) \/ Flush(s)
      PROVE  InTurns' /\ Extends(content, content')
  BY <1>3, <1>7, WriteInTurns
<1>8. CASE InitializeWorkspace \/ \E s \in Sessions : Crash(s) \/ SwallowError(s)
  BY <1>8 DEF InitializeWorkspace, Crash, SwallowError
<1>9. CASE UNCHANGED vars
  BY <1>3, <1>9 DEF vars, InTurns, Truncated
<1> QED BY <1>4, <1>5, <1>6, <1>7, <1>8, <1>9 DEF Next

\* For any sessions of either driver that take turns and live, and any number
\* of appends: a block that was once in the file stays in it, at its place.
THEOREM FileIsTimeless ==
  ASSUME NoneIsNoHistory
  PROVE  Spec => Timeless
<1>1. TurnsInv /\ IInv /\ [Next]_vars => TurnsInv'
  BY TurnsStep
<1>2. IInv /\ TurnsInv /\ [Next]_vars =>
        [may = {} => \A k \in Keys : content[k] # None =>
           /\ content'[k] # None
           /\ Len(content[k]) <= Len(content'[k])
           /\ \A i \in DOMAIN content[k] : content'[k][i] = content[k][i]]_vars
  BY TurnsStep DEF Extends
<1> QED BY InitInv, StepInv, InitTurns, <1>1, <1>2, PTL DEF Spec, Timeless

-----------------------------------------------------------------------------
(***************************************************************************)
(* The query cache.  In a process that hears of every edit, each cached    *)
(* key is linked in the graph to every file its value depends on, so the   *)
(* report of an edit evicts all that the edit made old (Linked, Heard); an *)
(* entry agrees with its own fingerprint where no edit falls into a        *)
(* computation (Sourced).                                                  *)
(***************************************************************************)

\* A table holds one entry per key, about the files the key reads.
Entries(table) ==
  /\ DOMAIN table \subseteq Queries
  /\ \A k \in DOMAIN table : table[k].value = [f \in Reads[k] |-> table[k].value[f]]

\* Only of the files that were edited since can an entry be out of date, where
\* all that was read on the way is declared.
UpToDate(table) ==
  \A k \in DOMAIN table \cap Declared : \A f \in Reads[k] \ unreported : table[k].value[f] = file[f]

\* An entry was computed from the source that its fingerprint is of.
OfItsSource(table) ==
  \A k \in DOMAIN table :
    SourceOf[k] # Unset => table[k].value[SourceOf[k]] = table[k].fingerprint.source

Tables ==
  /\ file \in [Files -> Versions]
  /\ recorded \in [Files -> Versions \cup {Unset}]
  /\ Entries(memory) /\ Entries(entries)

\* What a computation asks the cache for is still there when it asks.
Prepared ==
  computing # Unset =>
    /\ computing.key \in Queries
    /\ Deps[computing.key] \cap Queries \subseteq DOMAIN memory

\* Such a key depends, in the graph, on every file it was computed from.
Linked == \A k \in DOMAIN memory \cap Declared : \A f \in Reads[k] : k \in Reached(f, edges)

\* An edit is told from the content that was reported last.
Heard ==
  \A f \in Files :
    /\ f \in unreported => recorded[f] # file[f]
    /\ f \notin unreported => recorded[f] \in {Unset, file[f]}

Followed ==
  /\ DOMAIN entries \subseteq DOMAIN memory
  /\ Linked
  /\ UpToDate(memory) /\ UpToDate(entries)
  /\ Heard

Sourced ==
  /\ OfItsSource(memory) /\ OfItsSource(entries)
  /\ computing # Unset /\ SourceOf[computing.key] # Unset
       => computing.source = file[SourceOf[computing.key]]

CacheInv ==
  /\ Tables /\ Prepared
  /\ Watched => Followed
  /\ "midway" \notin cacheMay => Sourced

-----------------------------------------------------------------------------
(* Reachability and tables *)

\* What a relation reaches is reached by a larger one, and along one edge more.
LEMMA ReachedGrows ==
  ASSUME NEW n, NEW R, NEW S, R \subseteq S
  PROVE  Reached(n, R) \subseteq Reached(n, S)
BY DEF Reached

LEMMA ReachedByEdge ==
  ASSUME NEW n, NEW m, NEW p \in Vertices, NEW R, <<m, p>> \in R, m = n \/ m \in Reached(n, R)
  PROVE  p \in Reached(n, R)
<1> SUFFICES ASSUME NEW T \in SUBSET Vertices, \A e \in R : e[1] \in T \cup {n} => e[2] \in T
             PROVE  p \in T
  BY DEF Reached
<1>1. m \in T \cup {n}
  BY DEF Reached
<1> QED BY <1>1

\* What a step leads to reaches no more than what it leads from.
LEMMA ReachedFirst ==
  ASSUME NEW n, NEW m, NEW R, <<n, m>> \in R
  PROVE  Reached(m, R) \subseteq Reached(n, R)
<1> SUFFICES ASSUME NEW p \in Reached(m, R), NEW T \in SUBSET Vertices,
                    \A e \in R : e[1] \in T \cup {n} => e[2] \in T
             PROVE  p \in T
  BY DEF Reached
<1>1. m \in T
  OBVIOUS
<1>2. \A e \in R : e[1] \in T \cup {m} => e[2] \in T
  BY <1>1
<1> QED BY <1>2 DEF Reached

\* A key that declares what it reads depends on keys that do.
LEMMA DeclaredDepends ==
  ASSUME NEW k \in Declared, NEW d \in Deps[k] \cap Queries
  PROVE  d \in Declared
<1>1. k \in Queries /\ d \in Vertices /\ <<k, d>> \in DeclaredDeps
  BY DEF Declared, DeclaredDeps, Vertices
<1>2. d \in Reached(k, DeclaredDeps) /\ Reached(d, DeclaredDeps) \subseteq Reached(k, DeclaredDeps)
  BY <1>1, ReachedByEdge, ReachedFirst
<1> QED BY <1>2 DEF Declared

\* What a key reads it reads itself, or through a key it depends on.
Through(k, f) ==
  \/ f = SourceOf[k] \/ f \in Deps[k]
  \/ \E d \in Deps[k] \cap Queries : f \in Reads[d]

LEMMA ReadsThrough ==
  ASSUME NEW k \in Queries, NEW f \in Reads[k]
  PROVE  Through(k, f)
<1> DEFINE T == {m \in Vertices : m \in Deps[k] \/ \E d \in Deps[k] \cap Queries : m \in Reached(d, DeclaredDeps)}
<1>1. \A e \in DeclaredDeps : e[1] \in T \cup {k} => e[2] \in T
  <2> SUFFICES ASSUME NEW e \in DeclaredDeps, e[1] \in T \cup {k}
               PROVE  e[2] \in T
    OBVIOUS
  <2>1. e[1] \in Queries /\ e[2] \in Vertices /\ e[2] \in Deps[e[1]] /\ <<e[1], e[2]>> \in DeclaredDeps
    BY DEF DeclaredDeps
  <2>2. CASE e[1] = k
    BY <2>1, <2>2
  <2>3. CASE e[1] \in Deps[k]
    BY <2>1, <2>3, ReachedByEdge
  <2>4. ASSUME NEW d \in Deps[k] \cap Queries, e[1] \in Reached(d, DeclaredDeps) PROVE e[2] \in T
    <3>1. e[2] \in Reached(d, DeclaredDeps)
      BY <2>1, <2>4, ReachedByEdge
    <3> QED BY <2>1, <3>1
  <2> QED BY <2>2, <2>3, <2>4
<1>2. Reached(k, DeclaredDeps) \subseteq T
  BY <1>1 DEF Reached
<1> HIDE DEF T
<1>3. f \in Files /\ (f \in T \/ \E j \in {k} \cup (Queries \cap T) : f = SourceOf[j])
  BY <1>2 DEF Reads
<1>4. ASSUME NEW d \in Queries, NEW j \in Queries, j = d \/ j \in Reached(d, DeclaredDeps), f = SourceOf[j]
      PROVE  f \in Reads[d]
  BY <1>3, <1>4 DEF Reads
<1>5. ASSUME NEW d \in Queries, f \in Reached(d, DeclaredDeps) PROVE f \in Reads[d]
  BY <1>3, <1>5 DEF Reads
<1> QED BY <1>3, <1>4, <1>5 DEF T, Through

\* A key reads its source.
LEMMA SourceIsRead ==
  ASSUME NEW k \in Queries, SourceOf[k] # Unset
  PROVE  SourceOf[k] \in Reads[k] /\ SourceOf[k] \in Files
BY CacheConstants DEF CacheAssumption, Reads

\* Without and With, entry by entry.
LEMMA TableWithout ==
  ASSUME NEW table, NEW gone
  PROVE  /\ DOMAIN Without(table, gone) = DOMAIN table \ gone
         /\ \A k \in DOMAIN table \ gone : Without(table, gone)[k] = table[k]
BY DEF Without, Restrict

LEMMA TableWith ==
  ASSUME NEW table, NEW k, NEW entry
  PROVE  /\ DOMAIN With(table, k, entry) = DOMAIN table \cup {k}
         /\ With(table, k, entry)[k] = entry
         /\ \A j \in DOMAIN table \ {k} : With(table, k, entry)[j] = table[j]
BY DEF With

-----------------------------------------------------------------------------
(* The operations *)

\* An engine that starts has nothing cached, nothing recorded and no edit to hear of.
LEMMA CacheInitInv == CacheInit => CacheInv
<1> SUFFICES ASSUME CacheInit PROVE CacheInv
  OBVIOUS
<1>1. DOMAIN memory = {} /\ DOMAIN entries = {} /\ unreported = {} /\ computing = Unset
  BY DEF CacheInit
<1>2. Tables
  BY <1>1 DEF CacheInit, Tables, Entries
<1>3. Followed
  BY <1>1 DEF CacheInit, Followed, Linked, UpToDate, Heard
<1> QED BY <1>1, <1>2, <1>3 DEF CacheInv, Prepared, Sourced, OfItsSource

\* An edit makes old only what is computed from a file not yet reported.
LEMMA EditPreserves ==
  ASSUME CacheInv, NEW f \in Files, Edit(f)
  PROVE  CacheInv'
<1>1. PICK v \in Versions : v # file[f] /\ file' = [file EXCEPT ![f] = v]
  BY DEF Edit
<1>2. /\ file' \in [Files -> Versions] /\ file'[f] = v
      /\ \A g \in Files \ {f} : file'[g] = file[g]
  BY <1>1 DEF CacheInv, Tables
<1>3. UNCHANGED <<cacheMay, memory, entries, edges, recorded, computing>> /\ unreported' = unreported \cup {f}
  BY DEF Edit
<1>4. Tables' /\ Prepared'
  BY <1>2, <1>3 DEF CacheInv, Tables, Prepared, Entries
<1>5. ASSUME Watched PROVE Followed'
  <2>1. Followed /\ unreported = {}
    BY <1>5 DEF CacheInv, Watched, Edit
  <2>2. UpToDate(memory)' /\ UpToDate(entries)'
    <3>1. \A k \in Queries : Reads[k] \subseteq Files
      BY DEF Reads
    <3>2. DOMAIN memory \subseteq Queries /\ DOMAIN entries \subseteq Queries
      BY DEF CacheInv, Tables, Entries
    <3> QED BY <1>2, <1>3, <2>1, <3>1, <3>2 DEF Followed, UpToDate
  <2>3. Heard'
    BY <1>1, <1>2, <1>3, <2>1, CacheConstants DEF Followed, Heard, CacheAssumption
  <2> QED BY <1>3, <2>1, <2>2, <2>3 DEF Followed, Linked
<1>6. ASSUME "midway" \notin cacheMay PROVE Sourced'
  BY <1>3, <1>6 DEF CacheInv, Sourced, OfItsSource, Edit
<1> QED BY <1>3, <1>4, <1>5, <1>6 DEF CacheInv, Watched

\* Looking a key up moves an entry from disk to memory at most.
Loads(after) ==
  /\ DOMAIN memory \subseteq DOMAIN after
  /\ \A j \in DOMAIN after :
       \/ j \in DOMAIN memory /\ after[j] = memory[j]
       \/ j \in DOMAIN entries \ DOMAIN memory /\ after[j] = entries[j]

LEMMA LookupLoads ==
  ASSUME NEW k \in Queries
  PROVE  Loads(MemoryAfterLookup(k))
<1>1. CASE Lookup(k) = Unset
  BY <1>1 DEF MemoryAfterLookup, Loads
<1>2. CASE Lookup(k) # Unset
  <2>1. MemoryAfterLookup(k) = With(memory, k, Lookup(k))
    BY <1>2 DEF MemoryAfterLookup
  <2>2. \/ k \in DOMAIN memory /\ Lookup(k) = memory[k]
        \/ k \in DOMAIN entries \ DOMAIN memory /\ Lookup(k) = entries[k]
    BY <1>2 DEF Lookup
  <2>3. /\ DOMAIN MemoryAfterLookup(k) = DOMAIN memory \cup {k}
        /\ MemoryAfterLookup(k)[k] = Lookup(k)
        /\ \A j \in DOMAIN memory \ {k} : MemoryAfterLookup(k)[j] = memory[j]
    BY <2>1 DEF With
  <2> HIDE <2>1
  <2> QED BY <2>2, <2>3 DEF Loads
<1> QED BY <1>1, <1>2

\* A call that finds its answer, or has to compute it.
LEMMA CallPreserves ==
  ASSUME CacheInv, NEW k \in Queries, Hit(k) \/ Miss(k)
  PROVE  CacheInv'
<1>1. Loads(memory') /\ UNCHANGED <<cacheMay, file, unreported, entries, edges, recorded>>
  BY LookupLoads DEF Hit, Miss
<1>2. \/ computing' = Unset
      \/ computing' = Fingerprint(k) /\ Deps[k] \cap Queries \subseteq DOMAIN memory
  BY DEF Hit, Miss, MayCall
<1>3. Entries(memory)' /\ Tables'
  BY <1>1 DEF CacheInv, Tables, Entries, Loads
<1>4. Prepared'
  BY <1>1, <1>2 DEF Prepared, Loads, Fingerprint
<1>5. ASSUME Watched PROVE Followed'
  <2>1. Followed /\ DOMAIN memory' = DOMAIN memory /\ \A j \in DOMAIN memory : memory'[j] = memory[j]
    BY <1>1, <1>5 DEF CacheInv, Followed, Loads
  <2> QED BY <1>1, <2>1 DEF Followed, Linked, UpToDate, Heard
<1>6. ASSUME "midway" \notin cacheMay PROVE Sourced'
  <2>1. OfItsSource(memory)' /\ OfItsSource(entries)'
    BY <1>1, <1>6 DEF CacheInv, Sourced, OfItsSource, Loads
  <2>2. computing' # Unset /\ SourceOf[computing'.key] # Unset
          => computing'.source = file'[SourceOf[computing'.key]]
    BY <1>1, <1>2 DEF Fingerprint
  <2> QED BY <2>1, <2>2 DEF Sourced
<1> QED BY <1>1, <1>3, <1>4, <1>5, <1>6 DEF CacheInv, Watched

\* What an invalidation leaves, it leaves as it was.
Shrinks(gone) ==
  /\ DOMAIN memory' = DOMAIN memory \ gone /\ \A j \in DOMAIN memory \ gone : memory'[j] = memory[j]
  /\ DOMAIN entries' = DOMAIN entries \ gone /\ \A j \in DOMAIN entries \ gone : entries'[j] = entries[j]

LEMMA InvalidateShrinks ==
  ASSUME NEW n, Invalidate(n)
  PROVE  Shrinks(Evicted(n))
BY TableWithout DEF Invalidate, Shrinks

\* Entries fewer than before are as sound as before; the report of an edit has
\* to say why those that are left do not depend on it.
LEMMA ShrinkingPreserves ==
  ASSUME CacheInv, NEW gone, Shrinks(gone), computing = Unset,
         UNCHANGED <<cacheMay, file, computing>>, recorded' \in [Files -> Versions \cup {Unset}]
  PROVE  /\ Tables' /\ Prepared'
         /\ "midway" \notin cacheMay => Sourced'
BY DEF CacheInv, Tables, Entries, Prepared, Sourced, OfItsSource, Shrinks

\* on_file_changed: everything computed from the file is evicted, unless its
\* content is the one that was reported last.
LEMMA ReportPreserves ==
  ASSUME CacheInv, NEW f \in Files, OnFileChanged(f)
  PROVE  CacheInv'
<1>1. PICK gone : Shrinks(gone) /\ (recorded[f] # file[f] => gone = Evicted(f))
  <2>1. CASE recorded[f] = file[f]
    BY <2>1 DEF OnFileChanged, Shrinks
  <2>2. CASE recorded[f] # file[f]
    BY <2>2, InvalidateShrinks DEF OnFileChanged
  <2> QED BY <2>1, <2>2
<1>2. /\ UNCHANGED <<cacheMay, file, edges, computing>> /\ computing = Unset
      /\ unreported' = unreported \ {f} /\ recorded' = [recorded EXCEPT ![f] = file[f]]
  BY DEF OnFileChanged
<1>3. recorded \in [Files -> Versions \cup {Unset}] /\ file \in [Files -> Versions]
  BY DEF CacheInv, Tables
<1>4. Tables' /\ Prepared' /\ ("midway" \notin cacheMay => Sourced')
  <2>1. recorded' \in [Files -> Versions \cup {Unset}]
    BY <1>2, <1>3
  <2> QED BY <1>1, <1>2, <2>1, ShrinkingPreserves
<1>5. ASSUME Watched PROVE Followed'
  <2>1. Followed
    BY <1>5 DEF CacheInv
  <2>2. DOMAIN entries' \subseteq DOMAIN memory' /\ Linked'
    BY <1>1, <1>2, <2>1 DEF Shrinks, Followed, Linked
  <2>3. Heard'
    BY <1>2, <1>3, <2>1 DEF Followed, Heard
  <2>4. \A k \in DOMAIN memory' \cap Declared : f \in Reads[k] => f \notin unreported
    <3>1. CASE recorded[f] = file[f]
      BY <2>1, <3>1 DEF Followed, Heard
    <3>2. CASE recorded[f] # file[f]
      BY <1>1, <2>1, <3>2 DEF Shrinks, Followed, Linked, Evicted
    <3> QED BY <3>1, <3>2
  <2>5. UpToDate(memory)' /\ UpToDate(entries)'
    BY <1>1, <1>2, <2>1, <2>2, <2>4 DEF Shrinks, Followed, UpToDate
  <2> QED BY <2>2, <2>3, <2>5 DEF Followed
<1> QED BY <1>2, <1>4, <1>5 DEF CacheInv, Watched

\* invalidate_by_fingerprint and on_config_changed only remove.
LEMMA RemovalPreserves ==
  ASSUME CacheInv, OnConfigChanged \/ \E k \in Queries : InvalidateByFingerprint(k)
  PROVE  CacheInv'
<1>1. /\ UNCHANGED <<cacheMay, file, unreported, recorded, computing>> /\ computing = Unset
      /\ \E gone : Shrinks(gone) /\ (edges' = edges \/ DOMAIN memory' = {})
  <2>1. CASE OnConfigChanged
    <3>1. DOMAIN memory' = {} /\ DOMAIN entries' = {}
      BY <2>1 DEF OnConfigChanged
    <3>2. Shrinks(DOMAIN memory \cup DOMAIN entries)
      BY <3>1 DEF Shrinks
    <3> QED BY <2>1, <3>1, <3>2 DEF OnConfigChanged, MayCall
  <2>2. ASSUME NEW k \in Queries, InvalidateByFingerprint(k)
        PROVE  /\ UNCHANGED <<cacheMay, file, unreported, recorded, computing>> /\ computing = Unset
               /\ Shrinks(Evicted(k)) /\ edges' = edges
    BY <2>2, InvalidateShrinks DEF InvalidateByFingerprint, MayCall
  <2> QED BY <2>1, <2>2
<1>2. PICK gone : Shrinks(gone) /\ (edges' = edges \/ DOMAIN memory' = {})
  BY <1>1
<1>3. Tables' /\ Prepared' /\ ("midway" \notin cacheMay => Sourced')
  <2>1. recorded' \in [Files -> Versions \cup {Unset}]
    BY <1>1 DEF CacheInv, Tables
  <2> QED BY <1>1, <1>2, <2>1, ShrinkingPreserves
<1>4. ASSUME Watched PROVE Followed'
  <2>1. Followed
    BY <1>4 DEF CacheInv
  <2>2. DOMAIN entries' \subseteq DOMAIN memory' /\ Linked'
    BY <1>2, <2>1 DEF Shrinks, Followed, Linked
  <2>3. UpToDate(memory)' /\ UpToDate(entries)' /\ Heard'
    BY <1>1, <1>2, <2>1 DEF Shrinks, Followed, UpToDate, Heard
  <2> QED BY <2>2, <2>3 DEF Followed
<1> QED BY <1>1, <1>3, <1>4 DEF CacheInv, Watched

\* A new process has the entry files only, and no call in progress.
LEMMA RestartPreserves ==
  ASSUME CacheInv, Restart
  PROVE  CacheInv'
<1>1. /\ UNCHANGED <<cacheMay, file, entries>> /\ DOMAIN memory' = {} /\ computing' = Unset
      /\ recorded' = [f \in Files |-> Unset] /\ ~Watched
  BY DEF Restart, Watched
<1>2. Tables' /\ Prepared'
  BY <1>1 DEF CacheInv, Tables, Entries, Prepared
<1>3. "midway" \notin cacheMay => Sourced'
  BY <1>1 DEF CacheInv, Sourced, OfItsSource
<1> QED BY <1>1, <1>2, <1>3 DEF CacheInv, Watched

\* What a computation finds is as new as the file itself, or as the entries of
\* the keys it asks for.
LEMMA ValueIsUpToDate ==
  ASSUME Tables, UpToDate(memory), NEW k \in Declared, Deps[k] \cap Queries \subseteq DOMAIN memory,
         NEW f \in Reads[k] \ unreported
  PROVE  Value(k)[f] = file[f]
<1>1. CASE f = SourceOf[k] \/ f \in Deps[k]
  BY <1>1 DEF Value
<1>2. CASE ~(f = SourceOf[k] \/ f \in Deps[k])
  <2>1. \E d \in Deps[k] \cap Queries : f \in Reads[d]
    BY <1>2, ReadsThrough DEF Through, Declared
  <2>2. PICK d \in Deps[k] \cap Queries :
          f \in Reads[d] /\ d = CHOOSE c \in Deps[k] \cap Queries : f \in Reads[c]
    BY <2>1
  <2>3. Value(k)[f] = memory[d].value[f]
    BY <1>2, <2>2 DEF Value
  <2>4. d \in Declared
    BY DeclaredDepends
  <2> QED BY <2>2, <2>3, <2>4 DEF UpToDate
<1> QED BY <1>1, <1>2

\* The keys a new entry hangs from are linked to all that it was computed from.
LEMMA NewEntryIsLinked ==
  ASSUME Linked, NEW k \in Declared, Deps[k] \cap Queries \subseteq DOMAIN memory,
         NEW f \in Reads[k], NEW R, edges \subseteq R, \A d \in Deps[k] : <<d, k>> \in R
  PROVE  k \in Reached(f, R)
<1>1. k \in Vertices /\ k \in Queries
  BY DEF Vertices, Declared
<1>2. CASE f \in Deps[k]
  BY <1>1, <1>2, ReachedByEdge
<1>3. ASSUME NEW d \in Deps[k] \cap Queries, f \in Reads[d] PROVE k \in Reached(f, R)
  <2>1. d \in Reached(f, R)
    BY <1>3, DeclaredDepends, ReachedGrows DEF Linked
  <2> QED BY <1>1, <2>1, ReachedByEdge
<1>4. f = SourceOf[k] => f \in Deps[k]
  <2>1. f \in Files
    BY <1>1 DEF Reads
  <2> QED BY <2>1, CacheConstants DEF CacheAssumption, Declared
<1> QED BY <1>1, <1>2, <1>3, <1>4, ReadsThrough DEF Through

\* compute_fn returns and its value is put in the cache, and on disk unless the
\* write fails.
LEMMA ComputedPreserves ==
  ASSUME CacheInv, Computed
  PROVE  CacheInv'
<1> DEFINE k == computing.key
           entry == [fingerprint |-> computing, value |-> Value(k)]
<1>1. /\ k \in Queries /\ Deps[k] \cap Queries \subseteq DOMAIN memory
      /\ UNCHANGED <<cacheMay, file, unreported, recorded>> /\ computing' = Unset
  BY DEF Computed, CacheInv, Prepared
<1>2. /\ memory' = With(memory, k, entry)
      /\ entries' = entries \/ entries' = With(entries, k, entry)
      /\ edges' = edges \cup {<<d, k>> : d \in Deps[k]}
  BY DEF Computed, Put
<1>3. PICK e : e = entry
  OBVIOUS
<1>4. e.fingerprint = computing /\ e.value = [f \in Reads[k] |-> e.value[f]]
  BY <1>3 DEF Value
<1>5. /\ DOMAIN memory' = DOMAIN memory \cup {k} /\ memory'[k] = e
      /\ \A j \in DOMAIN memory \ {k} : memory'[j] = memory[j]
  BY <1>2, <1>3 DEF With
<1>6. \/ entries' = entries
      \/ /\ DOMAIN entries' = DOMAIN entries \cup {k} /\ entries'[k] = e
         /\ \A j \in DOMAIN entries \ {k} : entries'[j] = entries[j]
  BY <1>2, <1>3 DEF With
<1>7. Tables' /\ Prepared'
  BY <1>1, <1>4, <1>5, <1>6 DEF CacheInv, Tables, Entries, Prepared
<1>8. ASSUME Watched PROVE Followed'
  <2>1. Followed
    BY <1>8 DEF CacheInv
  <2>2. k \in Declared => \A f \in Reads[k] \ unreported : e.value[f] = file[f]
    BY <1>1, <1>3, <2>1, ValueIsUpToDate DEF CacheInv, Followed
  <2>3. UpToDate(memory)' /\ UpToDate(entries)'
    BY <1>1, <1>5, <1>6, <2>1, <2>2 DEF Followed, UpToDate
  <2>4. ASSUME k \in Declared, NEW f \in Reads[k] PROVE k \in Reached(f, edges')
    BY <1>1, <1>2, <2>1, <2>4, NewEntryIsLinked DEF Followed
  <2>5. ASSUME NEW j \in DOMAIN memory \cap Declared, NEW f \in Reads[j] PROVE j \in Reached(f, edges')
    BY <1>2, <2>1, ReachedGrows DEF Followed, Linked
  <2>6. Linked'
    BY <1>5, <2>4, <2>5 DEF Linked
  <2>7. DOMAIN entries' \subseteq DOMAIN memory' /\ Heard'
    BY <1>1, <1>5, <1>6, <2>1 DEF Followed, Heard
  <2> QED BY <2>3, <2>6, <2>7 DEF Followed
<1>9. ASSUME "midway" \notin cacheMay PROVE Sourced'
  <2>1. SourceOf[k] # Unset => e.value[SourceOf[k]] = e.fingerprint.source
    <3> SUFFICES ASSUME SourceOf[k] # Unset PROVE e.value[SourceOf[k]] = e.fingerprint.source
      OBVIOUS
    <3>1. Value(k)[SourceOf[k]] = file[SourceOf[k]]
      BY <1>1, SourceIsRead DEF Value
    <3>2. computing.source = file[SourceOf[k]]
      BY <1>9 DEF CacheInv, Sourced, Computed
    <3> QED BY <1>3, <1>4, <3>1, <3>2
  <2> QED BY <1>1, <1>5, <1>6, <1>9, <2>1 DEF CacheInv, Sourced, OfItsSource
<1> QED BY <1>1, <1>7, <1>8, <1>9 DEF CacheInv, Watched

\* Every operation, edit and restart preserves the invariant.
LEMMA CacheStepInv == CacheInv /\ [CacheNext]_cacheVars => CacheInv'
<1> SUFFICES ASSUME CacheInv, [CacheNext]_cacheVars PROVE CacheInv'
  OBVIOUS
<1>1. CASE \E f \in Files : Edit(f) \/ OnFileChanged(f)
  BY <1>1, EditPreserves, ReportPreserves
<1>2. CASE \E k \in Queries : Hit(k) \/ Miss(k)
  BY <1>2, CallPreserves
<1>3. CASE OnConfigChanged \/ \E k \in Queries : InvalidateByFingerprint(k)
  BY <1>3, RemovalPreserves
<1>4. CASE Computed
  BY <1>4, ComputedPreserves
<1>5. CASE Restart
  BY <1>5, RestartPreserves
<1>6. CASE UNCHANGED cacheVars
  <2>1. Tables' /\ Prepared'
    BY <1>6 DEF cacheVars, CacheInv, Tables, Entries, Prepared
  <2>2. Watched => Followed'
    BY <1>6 DEF cacheVars, CacheInv, Followed, Linked, UpToDate, Heard
  <2>3. "midway" \notin cacheMay => Sourced'
    BY <1>6 DEF cacheVars, CacheInv, Sourced, OfItsSource
  <2> QED BY <1>6, <2>1, <2>2, <2>3 DEF cacheVars, CacheInv, Watched
<1> QED BY <1>1, <1>2, <1>3, <1>4, <1>5, <1>6 DEF CacheNext

\* What was reported is evicted, and what a fingerprint vouches for is present.
LEMMA CacheInvImplies == CacheInv => CacheIsSound
<1> SUFFICES ASSUME CacheInv PROVE CacheIsSound
  OBVIOUS
<1>1. ReportedMeansFresh
  <2> SUFFICES ASSUME Watched, unreported = {} PROVE Stale(memory) = {} /\ Stale(entries) = {}
    BY DEF ReportedMeansFresh
  <2>1. \A k \in DOMAIN memory \cap Declared : memory[k].value = Present(k)
    BY DEF CacheInv, Tables, Entries, Followed, UpToDate, Present
  <2>2. \A k \in DOMAIN entries \cap Declared : entries[k].value = Present(k)
    BY DEF CacheInv, Tables, Entries, Followed, UpToDate, Present
  <2> QED BY <2>1, <2>2 DEF Stale
<1>2. HitsAreOfTheSource
  <2> SUFFICES ASSUME "midway" \notin cacheMay, NEW k \in Queries,
                      SourceOf[k] # Unset, Lookup(k) # Unset, Lookup(k).fingerprint = Fingerprint(k)
               PROVE  Lookup(k).value[SourceOf[k]] = file[SourceOf[k]]
    BY DEF HitsAreOfTheSource
  <2>1. Lookup(k).value[SourceOf[k]] = Lookup(k).fingerprint.source
    BY DEF CacheInv, Sourced, OfItsSource, Lookup
  <2>2. Fingerprint(k).source = file[SourceOf[k]]
    BY DEF Fingerprint
  <2> QED BY <2>1, <2>2
<1> QED BY <1>1, <1>2 DEF CacheIsSound

\* For any keys, dependencies and files: once every edit was reported nothing
\* old is cached, also where an edit fell into a computation or a write failed;
\* and across restarts, what memoize returns was computed from the source as it
\* is (MemoizationEngine).
THEOREM CacheStaysSound == CacheSpec => []CacheIsSound
BY CacheInitInv, CacheStepInv, CacheInvImplies, PTL DEF CacheSpec
-----------------------------------------------------------------------------
(* The operators on sequences.                                             *)

LEMMA AmongSelects ==
    ASSUME NEW T, NEW s \in Seq(T), NEW S
    PROVE  Selected(Among(s, S), s, S, T)
<1> DEFINE f == CHOOSE f : Selecting(f, s, S)
<1>1. Among(s, S) = f[Len(s)]
    BY DEF Among, Selecting
<1>2. Selecting(f, s, S)
    BY SelectingExists
<1> HIDE DEF f
<1> QED
    BY <1>1, <1>2, SelectingSelects

-----------------------------------------------------------------------------
(* The vantage-point tree.                                                 *)

Items == NodeSet \X Places

LEMMA InsertAtAdds ==
    ASSUME NEW T, NEW s \in Seq(T), NEW x \in T, NEW i \in 1..(Len(s) + 1)
    PROVE  /\ InsertAt(s, i, x) \in Seq(T)
           /\ Len(InsertAt(s, i, x)) = Len(s) + 1
           /\ ToSet(InsertAt(s, i, x)) = ToSet(s) \cup {x}
<1> DEFINE p == SubSeq(s, 1, i - 1)
           q == SubSeq(s, i, Len(s))
           r == InsertAt(s, i, x)
<1>1. p \in Seq(T) /\ Len(p) = i - 1 /\ \A k \in 1..(i - 1) : p[k] = s[k]
    OBVIOUS
<1>2. /\ q \in Seq(T) /\ Len(q) = Len(s) - i + 1
      /\ \A k \in 1..(Len(s) - i + 1) : q[k] = s[i + k - 1]
    OBVIOUS
<1>3. r = p \o <<x>> \o q
    BY DEF InsertAt
<1> HIDE DEF p, q, r
<1> DEFINE m == Append(p, x)
<1>4. /\ m \in Seq(T) /\ Len(m) = i /\ m[i] = x
      /\ \A k \in 1..(i - 1) : m[k] = s[k]
    BY <1>1
<1>5. r = m \o q
    BY <1>1, <1>3
<1> HIDE DEF m
<1>6. r \in Seq(T) /\ Len(r) = Len(s) + 1
  <2>1. r \in Seq(T) /\ Len(r) = Len(m) + Len(q)
      BY <1>2, <1>4, <1>5
  <2>2. i + (Len(s) - i + 1) = Len(s) + 1
      OBVIOUS
  <2> QED
      BY <1>2, <1>4, <2>1, <2>2
<1>7. \A k \in 1..(Len(s) + 1) : r[k] = IF k <= i THEN m[k] ELSE q[k - i]
    BY <1>2, <1>4, <1>5
<1>8. ASSUME NEW k \in 1..(Len(s) + 1)
      PROVE  r[k] = IF k < i THEN s[k] ELSE IF k = i THEN x ELSE s[k - 1]
  <2>1. CASE k <= i
      BY <1>4, <1>7, <2>1
  <2>2. CASE k > i
    <3>1. k - i \in 1..(Len(s) - i + 1) /\ i + (k - i) - 1 = k - 1
        BY <2>2
    <3> QED
        BY <1>2, <1>7, <2>2, <3>1
  <2> QED
      BY <2>1, <2>2
<1>9. ToSet(r) \subseteq ToSet(s) \cup {x}
    BY <1>6, <1>8 DEF ToSet
<1>10. \A k \in 1..Len(s) : s[k] \in ToSet(r)
  <2> SUFFICES ASSUME NEW k \in 1..Len(s) PROVE \E j \in DOMAIN r : r[j] = s[k]
      BY DEF ToSet
  <2>1. CASE k < i
    <3>1. k \in DOMAIN r /\ r[k] = s[k]
        BY <1>6, <1>8, <2>1
    <3> QED
        BY <3>1
  <2>2. CASE k >= i
    <3>1. k + 1 \in DOMAIN r /\ r[k + 1] = s[k]
        BY <1>6, <1>8, <2>2
    <3> QED
        BY <3>1
  <2> QED
      BY <2>1, <2>2
<1>11. x \in ToSet(r)
    BY <1>6, <1>8 DEF ToSet
<1>12. ToSet(r) = ToSet(s) \cup {x}
  <2>1. ToSet(s) \subseteq ToSet(r)
      BY <1>10 DEF ToSet
  <2> QED
      BY <1>9, <1>11, <2>1
<1> QED
    BY <1>6, <1>12 DEF r

LEMMA InsertAdds ==
    ASSUME NEW T, NEW s \in Seq(T), NEW x \in T, NEW v
    PROVE  /\ Insert(v, s, x) \in Seq(T) /\ Len(Insert(v, s, x)) = Len(s) + 1
           /\ ToSet(Insert(v, s, x)) = ToSet(s) \cup {x}
<1> DEFINE C == {k \in DOMAIN s : Dist(v[2], s[k][2]) <= Dist(v[2], x[2])}
<1>1. IsFiniteSet(1..Len(s)) /\ Cardinality(1..Len(s)) = Len(s)
  <2>1. PICK n \in Nat : n = Len(s)
      OBVIOUS
  <2>2. IsFiniteSet(1..n) /\ Cardinality(1..n) = IF 1 > n THEN 0 ELSE n - 1 + 1
      BY FS_Interval
  <2> QED
      BY <2>1, <2>2
<1>2. C \subseteq 1..Len(s)
    OBVIOUS
<1>3. Cardinality(C) \in Nat /\ Cardinality(C) <= Len(s)
  <2> HIDE DEF C
  <2> QED
      BY <1>1, <1>2, FS_Subset, FS_CardinalityType
<1>4. PICK i : i = Cardinality(C) + 1
    OBVIOUS
<1>5. i \in 1..(Len(s) + 1)
    BY <1>3, <1>4
<1>6. Insert(v, s, x) = InsertAt(s, i, x)
    BY <1>4 DEF Insert
<1> QED
    BY <1>5, <1>6, InsertAtAdds

Sorting(f, v, rest) ==
    f = [k \in 0..Len(rest) |-> IF k = 0 THEN <<>> ELSE Insert(v, f[k - 1], rest[k])]

LEMMA SortingExists ==
    ASSUME NEW T, NEW rest \in Seq(T), NEW v
    PROVE  \E f : Sorting(f, v, rest)
<1> DEFINE g == [k \in 1..Len(rest) |-> [a \in Seq(T) |-> Insert(v, a, rest[k])]]
<1>1. g \in [1..Len(rest) -> [Seq(T) -> Seq(T)]]
    BY InsertAdds
<1>2. <<>> \in Seq(T) /\ Len(rest) \in Nat
    OBVIOUS
<1>3. PICK f \in [0..Len(rest) -> Seq(T)] : Iterates(f, <<>>, g, Len(rest))
  <2> HIDE DEF g
  <2> QED
      BY <1>1, <1>2, IterationExists
<1>4. ASSUME NEW k \in 0..Len(rest)
      PROVE  f[k] = IF k = 0 THEN <<>> ELSE Insert(v, f[k - 1], rest[k])
  <2>1. f[k] = IF k = 0 THEN <<>> ELSE g[k][f[k - 1]]
    <3> HIDE DEF g
    <3> QED
        BY <1>3 DEF Iterates
  <2>2. k # 0 => k \in 1..Len(rest) /\ f[k - 1] \in Seq(T)
      OBVIOUS
  <2> QED
      BY <2>1, <2>2
<1>5. Sorting(f, v, rest)
  <2>1. f = [k \in 0..Len(rest) |-> f[k]]
      OBVIOUS
  <2> HIDE DEF g
  <2> QED
      BY <1>4, <2>1 DEF Sorting
<1> QED
    BY <1>5

\* A sorted list has the elements of the list.
LEMMA SortedHasAll ==
    ASSUME NEW T, NEW rest \in Seq(T), NEW v
    PROVE  /\ ByDistance(v, rest) \in Seq(T) /\ Len(ByDistance(v, rest)) = Len(rest)
           /\ ToSet(ByDistance(v, rest)) = ToSet(rest)
<1> DEFINE f == CHOOSE f : Sorting(f, v, rest)
<1>1. ByDistance(v, rest) = f[Len(rest)]
    BY DEF ByDistance, Sorting
<1>2. Sorting(f, v, rest)
    BY SortingExists
<1> HIDE DEF f
<1> DEFINE G == {k \in 0..Len(rest) : /\ f[k] \in Seq(T) /\ Len(f[k]) = k
                                      /\ ToSet(f[k]) = {rest[i] : i \in 1..k}}
<1>3. 0 \in G
  <2>1. f[0] = <<>>
      BY <1>2 DEF Sorting
  <2>2. ToSet(<<>>) = {} /\ {rest[i] : i \in 1..0} = {}
      BY DEF ToSet
  <2>3. f[0] \in Seq(T) /\ Len(f[0]) = 0
      BY <2>1
  <2>4. ToSet(f[0]) = {rest[i] : i \in 1..0}
      BY <2>1, <2>2
  <2>5. 0 \in 0..Len(rest)
      OBVIOUS
  <2> QED
      BY <2>3, <2>4, <2>5
<1>4. ASSUME NEW k \in 1..Len(rest), k - 1 \in G PROVE k \in G
  <2>1. k \in 0..Len(rest) /\ k # 0
      OBVIOUS
  <2>2. PICK a : a = f[k - 1]
      OBVIOUS
  <2>3. f[k] = Insert(v, a, rest[k])
      BY <1>2, <2>1, <2>2 DEF Sorting
  <2>4. a \in Seq(T) /\ Len(a) = k - 1 /\ ToSet(a) = {rest[i] : i \in 1..(k - 1)}
      BY <1>4, <2>2
  <2>5. {rest[i] : i \in 1..k} = {rest[i] : i \in 1..(k - 1)} \cup {rest[k]}
      OBVIOUS
  <2>6. rest[k] \in T
      OBVIOUS
  <2>7. /\ f[k] \in Seq(T) /\ Len(f[k]) = Len(a) + 1
        /\ ToSet(f[k]) = ToSet(a) \cup {rest[k]}
      BY <2>3, <2>4, <2>6, InsertAdds
  <2>8. Len(f[k]) = k /\ ToSet(f[k]) = {rest[i] : i \in 1..k}
      BY <2>4, <2>5, <2>7
  <2> QED
      BY <2>1, <2>7, <2>8
<1>5. Len(rest) \in G
  <2> HIDE DEF G
  <2>1. \A k \in 1..Len(rest) : k - 1 \in G => k \in G
      BY <1>4
  <2>2. Len(rest) \in Nat
      OBVIOUS
  <2>3. \A k \in 0..Len(rest) : k \in G
      BY <1>3, <2>1, <2>2, CountingUp
  <2> QED
      BY <2>2, <2>3
<1>6. {rest[i] : i \in 1..Len(rest)} = ToSet(rest)
    BY DEF ToSet
<1> QED
    BY <1>1, <1>5, <1>6

\* A node divides the items below it at its radius.
Halves(node, s) ==
    /\ node.key = s[1][1] /\ node.place = s[1][2] /\ node.radius \in Nat
    /\ node.inside \in Seq(Items) /\ Len(node.inside) < Len(s)
    /\ node.outside \in Seq(Items) /\ Len(node.outside) < Len(s)
    /\ \A x \in ToSet(node.inside) : x \in ToSet(s) /\ Dist(node.place, x[2]) <= node.radius
    /\ \A x \in ToSet(node.outside) : x \in ToSet(s) /\ Dist(node.place, x[2]) > node.radius
    /\ \A x \in ToSet(s) : x = s[1] \/ x \in ToSet(node.inside) \/ x \in ToSet(node.outside)

LEMMA BuildHalves ==
    ASSUME RigidityAssumption, NEW s \in Seq(Items), s # <<>>
    PROVE  Halves(Build(s), s)
<1>1. PICK v \in Items : v = s[1]
    OBVIOUS
<1>2. PICK rest \in Seq(Items) : rest = Tail(s) /\ Len(rest) = Len(s) - 1
  <2>1. Tail(s) \in Seq(Items) /\ Len(Tail(s)) = Len(s) - 1
      OBVIOUS
  <2> QED
      BY <2>1
<1>3. ToSet(s) = {v} \cup ToSet(rest)
  <2>1. \A i \in DOMAIN s : i = 1 \/ (i - 1 \in DOMAIN rest /\ s[i] = rest[i - 1])
      BY <1>2
  <2>2. \A i \in DOMAIN rest : i + 1 \in DOMAIN s /\ rest[i] = s[i + 1]
      BY <1>2
  <2>3. 1 \in DOMAIN s
      OBVIOUS
  <2>4. ToSet(s) \subseteq {v} \cup ToSet(rest)
      BY <1>1, <2>1 DEF ToSet
  <2>5. ToSet(rest) \subseteq ToSet(s)
      BY <2>2 DEF ToSet
  <2>6. v \in ToSet(s)
      BY <1>1, <2>3 DEF ToSet
  <2> QED
      BY <2>4, <2>5, <2>6
<1>4. PICK sorted : sorted = ByDistance(v, rest)
    OBVIOUS
<1>5. sorted \in Seq(Items) /\ Len(sorted) = Len(rest) /\ ToSet(sorted) = ToSet(rest)
    BY <1>4, SortedHasAll
<1>6. PICK radius : radius = IF sorted = <<>> THEN 0
                             ELSE Dist(v[2], sorted[Len(sorted) \div 2 + 1][2])
    OBVIOUS
<1>7. radius \in Nat
  <2>1. CASE sorted = <<>>
      BY <1>6, <2>1
  <2>2. CASE sorted # <<>>
    <3>1. Len(sorted) \div 2 + 1 \in DOMAIN sorted
        BY <1>5, <2>2
    <3>2. PICK y \in Items : y = sorted[Len(sorted) \div 2 + 1]
        BY <1>5, <3>1
    <3>3. v[2] \in Nat /\ y[2] \in Nat
        BY DEF Items, RigidityAssumption
    <3> QED
        BY <1>6, <2>2, <3>2, <3>3 DEF Dist
  <2> QED
      BY <2>1, <2>2
<1> DEFINE Near == {x \in ToSet(sorted) : Dist(v[2], x[2]) <= radius}
           Far == {x \in ToSet(sorted) : Dist(v[2], x[2]) > radius}
<1>8. PICK in, out : in = Among(sorted, Near) /\ out = Among(sorted, Far)
    OBVIOUS
<1>9. /\ Selected(in, sorted, Near, Items) /\ Selected(out, sorted, Far, Items)
    BY <1>5, <1>8, AmongSelects
<1>10. Build(s) = [key |-> v[1], place |-> v[2], radius |-> radius, inside |-> in, outside |-> out]
    BY <1>1, <1>2, <1>4, <1>6, <1>8 DEF Build, Inside, Outside
<1>11. \A x \in ToSet(sorted) : x \in Near \/ x \in Far
  <2> SUFFICES ASSUME NEW x \in ToSet(sorted)
               PROVE  Dist(v[2], x[2]) <= radius \/ Dist(v[2], x[2]) > radius
      OBVIOUS
  <2>1. x \in Items
      BY <1>5 DEF ToSet
  <2>2. v[2] \in Nat /\ x[2] \in Nat
      BY <2>1 DEF Items, RigidityAssumption
  <2> QED
      BY <1>7, <2>2 DEF Dist
<1>12. ToSet(in) = Near /\ ToSet(out) = Far
    BY <1>9 DEF Selected
<1>13. Len(in) < Len(s) /\ Len(out) < Len(s) /\ in \in Seq(Items) /\ out \in Seq(Items)
    BY <1>2, <1>5, <1>9 DEF Selected
<1>14. \A x \in ToSet(s) : x = v \/ x \in ToSet(in) \/ x \in ToSet(out)
  <2> HIDE DEF Near, Far
  <2> QED
      BY <1>3, <1>5, <1>11, <1>12
<1>15. PICK node : node = Build(s)
    OBVIOUS
<1>16. /\ node.key = v[1] /\ node.place = v[2] /\ node.radius = radius
       /\ node.inside = in /\ node.outside = out
    BY <1>10, <1>15
<1>17. Halves(node, s)
    BY <1>1, <1>3, <1>5, <1>7, <1>12, <1>13, <1>14, <1>16 DEF Halves
<1> QED
    BY <1>15, <1>17

Short(n) == {t \in Seq(Items) : Len(t) <= n}

LEMMA DistIsMetric ==
    ASSUME NEW a \in Nat, NEW b \in Nat, NEW c \in Nat
    PROVE  /\ Dist(a, b) \in Nat /\ Dist(a, b) = Dist(b, a)
           /\ Dist(a, c) <= Dist(a, b) + Dist(b, c)
BY DEF Dist

\* What a search of the items s, begun with best, comes to.
Improves(res, best, s, target) ==
    /\ res \in Found
    /\ s # <<>> \/ best # Nothing => res # Nothing
    /\ best # Nothing => res.dist <= best.dist
    /\ \A x \in ToSet(s) : res.dist <= Dist(x[2], target)
    /\ \/ res = best
       \/ \E x \in ToSet(s) : res = [key |-> x[1], dist |-> Dist(x[2], target)]

LEMMA CloserFound ==
    ASSUME RigidityAssumption, NEW s \in Seq(Items), s # <<>>, NEW node, Halves(node, s),
           NEW best \in Found, NEW target \in Nat
    PROVE  /\ Closer(node, target, best) \in Found /\ Closer(node, target, best) # Nothing
           /\ Closer(node, target, best).dist <= Dist(node.place, target)
           /\ best # Nothing => Closer(node, target, best).dist <= best.dist
           /\ \/ Closer(node, target, best) = best
              \/ Closer(node, target, best) = [key |-> s[1][1], dist |-> Dist(s[1][2], target)]
<1>1. PICK v \in Items : v = s[1]
    OBVIOUS
<1>2. v[1] \in NodeSet /\ v[2] \in Nat
    BY DEF Items, RigidityAssumption
<1>3. PICK d : d = Dist(v[2], target)
    OBVIOUS
<1>4. d \in Nat
    BY <1>2, <1>3, DistIsMetric
<1>5. PICK new : new = [key |-> v[1], dist |-> d]
    OBVIOUS
<1>6. new \in Found /\ new # Nothing /\ new.dist = d
    BY <1>2, <1>4, <1>5 DEF Found, Nothing
<1>7. Closer(node, target, best) = IF best = Nothing \/ d < best.dist THEN new ELSE best
    BY <1>1, <1>3, <1>5 DEF Closer, Halves
<1>8. best # Nothing => best.dist \in Nat
    BY DEF Found
<1>9. node.place = v[2]
    BY <1>1 DEF Halves
<1> QED
    BY <1>1, <1>3, <1>4, <1>5, <1>6, <1>7, <1>8, <1>9

LEMMA VisitFound ==
    ASSUME RigidityAssumption, NEW s \in Seq(Items), s # <<>>, NEW node, Halves(node, s),
           NEW best \in Found, NEW target \in Nat,
           NEW in \in [Found -> Found], NEW out \in [Found -> Found]
    PROVE  Visit(node, target, best, in, out) \in Found
<1>1. PICK b : b = Closer(node, target, best)
    OBVIOUS
<1>2. b \in Found
    BY <1>1, CloserFound
<1> QED
    BY <1>1, <1>2 DEF Visit

\* The half that is left out holds nothing nearer.
LEMMA VisitImproves ==
    ASSUME RigidityAssumption, NEW s \in Seq(Items), s # <<>>, NEW node, Halves(node, s),
           NEW best \in Found, NEW target \in Nat,
           NEW in \in [Found -> Found], NEW out \in [Found -> Found],
           \A b \in Found : Improves(in[b], b, node.inside, target),
           \A b \in Found : Improves(out[b], b, node.outside, target)
    PROVE  Improves(Visit(node, target, best, in, out), best, s, target)
<1>1. PICK b : b = Closer(node, target, best)
    OBVIOUS
<1>2. PICK v \in Items : v = s[1]
    OBVIOUS
<1>3. PICK d, r : d = Dist(v[2], target) /\ r = node.radius
    OBVIOUS
<1>4. v \in ToSet(s) /\ v[2] \in Nat /\ d \in Nat /\ r \in Nat /\ node.place = v[2]
  <2>1. 1 \in DOMAIN s
      OBVIOUS
  <2>2. v[2] \in Nat
      BY DEF Items, RigidityAssumption
  <2> QED
      BY <1>2, <1>3, <2>1, <2>2, DistIsMetric DEF Halves, ToSet
<1>5. /\ b \in Found /\ b # Nothing /\ b.dist \in Nat /\ b.dist <= d
      /\ best # Nothing => best.dist \in Nat /\ b.dist <= best.dist
      /\ b = best \/ b = [key |-> v[1], dist |-> d]
  <2>1. b # Nothing => b.dist \in Nat
      BY <1>1, CloserFound DEF Found
  <2>2. best # Nothing => best.dist \in Nat
      BY DEF Found
  <2> QED
      BY <1>1, <1>2, <1>3, <1>4, <2>1, <2>2, CloserFound
<1>6. PICK i, o : i = node.inside /\ o = node.outside
    OBVIOUS
<1> DEFINE Other(res) == /\ res \in Found /\ res # Nothing /\ res.dist \in Nat /\ res.dist <= b.dist
                         /\ \/ res = b
                            \/ \E x \in ToSet(s) : res = [key |-> x[1], dist |-> Dist(x[2], target)]
<1>7. \A res : Other(res) =>
        Improves(res, best, s, target) \/ \E x \in ToSet(s) : ~(res.dist <= Dist(x[2], target))
  <2> SUFFICES ASSUME NEW res, Other(res), \A x \in ToSet(s) : res.dist <= Dist(x[2], target)
               PROVE  Improves(res, best, s, target)
      OBVIOUS
  <2>1. best # Nothing => res.dist <= best.dist
      BY <1>5
  <2>2. res = best \/ \E x \in ToSet(s) : res = [key |-> x[1], dist |-> Dist(x[2], target)]
      BY <1>3, <1>4, <1>5
  <2> QED
      BY <2>1, <2>2 DEF Improves
<1>8. ASSUME NEW x \in ToSet(s)
      PROVE  /\ x[2] \in Nat /\ Dist(x[2], target) \in Nat /\ Dist(v[2], x[2]) \in Nat
             /\ Dist(v[2], x[2]) <= d + Dist(x[2], target)
             /\ d <= Dist(v[2], x[2]) + Dist(x[2], target)
             /\ \/ d = Dist(x[2], target)
                \/ x \in ToSet(i) /\ Dist(v[2], x[2]) <= r
                \/ x \in ToSet(o) /\ Dist(v[2], x[2]) > r
  <2>1. x \in Items
      BY DEF ToSet
  <2>2. x[2] \in Nat
      BY <2>1 DEF Items, RigidityAssumption
  <2>3. /\ Dist(x[2], target) \in Nat /\ Dist(v[2], x[2]) \in Nat
        /\ Dist(target, x[2]) = Dist(x[2], target)
        /\ Dist(v[2], x[2]) <= Dist(v[2], target) + Dist(target, x[2])
        /\ Dist(v[2], target) <= Dist(v[2], x[2]) + Dist(x[2], target)
      BY <1>4, <2>2, DistIsMetric
  <2>4. x = v \/ x \in ToSet(i) \/ x \in ToSet(o)
      BY <1>2, <1>6 DEF Halves
  <2>5. /\ x \in ToSet(i) => Dist(v[2], x[2]) <= r
        /\ x \in ToSet(o) => Dist(v[2], x[2]) > r
      BY <1>3, <1>4, <1>6 DEF Halves
  <2> QED
      BY <1>3, <2>2, <2>3, <2>4, <2>5
\* What the search of a half adds.
<1>9. ASSUME NEW h, h = i \/ h = o, NEW a, Other(a), NEW res, Improves(res, a, h, target)
      PROVE  Other(res) /\ res.dist <= a.dist /\ \A x \in ToSet(h) : res.dist <= Dist(x[2], target)
  <2>1. ToSet(h) \subseteq ToSet(s)
      BY <1>6, <1>9 DEF Halves
  <2>2. res \in Found /\ res # Nothing /\ res.dist <= a.dist
      BY <1>9 DEF Improves
  <2>3. res.dist \in Nat
      BY <2>2 DEF Found
  <2>4. res = a \/ \E x \in ToSet(h) : res = [key |-> x[1], dist |-> Dist(x[2], target)]
      BY <1>9 DEF Improves
  <2>5. \A x \in ToSet(h) : res.dist <= Dist(x[2], target)
      BY <1>9 DEF Improves
  <2>6. res.dist <= b.dist
      BY <1>5, <1>9, <2>2, <2>3
  <2>7. res = b \/ \E x \in ToSet(s) : res = [key |-> x[1], dist |-> Dist(x[2], target)]
      BY <1>9, <2>1, <2>4
  <2> QED
      BY <2>2, <2>3, <2>5, <2>6, <2>7
<1>10. Other(b)
    BY <1>5
<1> HIDE DEF Other
<1>11. \A a : Other(a) => a \in Found /\ a.dist \in Nat /\ a.dist <= b.dist
    BY DEF Other
<1>12. CASE d <= r
  <2>1. PICK m : m = in[b]
      OBVIOUS
  <2>2. Other(m) /\ \A x \in ToSet(i) : m.dist <= Dist(x[2], target)
      BY <1>5, <1>6, <1>9, <1>10, <2>1
  <2>3. CASE d + m.dist > r
    <3>1. PICK n : n = out[m]
        OBVIOUS
    <3>2. /\ Other(n) /\ n.dist <= m.dist
          /\ \A x \in ToSet(o) : n.dist <= Dist(x[2], target)
        BY <1>6, <1>9, <1>11, <2>2, <3>1
    <3>3. Visit(node, target, best, in, out) = n
        BY <1>1, <1>3, <1>4, <1>12, <2>1, <2>3, <3>1 DEF Visit
    <3>4. \A x \in ToSet(s) : n.dist <= Dist(x[2], target)
        BY <1>5, <1>8, <1>11, <2>2, <3>2
    <3> QED
        BY <1>7, <3>2, <3>3, <3>4
  <2>4. CASE ~(d + m.dist > r)
    <3>1. Visit(node, target, best, in, out) = m
        BY <1>1, <1>3, <1>4, <1>12, <2>1, <2>4 DEF Visit
    <3>2. ASSUME NEW x \in ToSet(s) PROVE m.dist <= Dist(x[2], target)
      <4>1. m.dist \in Nat /\ m.dist <= d
          BY <1>4, <1>5, <1>11, <2>2
      <4>2. PICK y, z : y = Dist(x[2], target) /\ z = Dist(v[2], x[2])
          OBVIOUS
      <4>3. /\ y \in Nat /\ z \in Nat /\ z <= d + y /\ d <= z + y
            /\ d = y \/ m.dist <= y \/ z > r
          BY <1>8, <2>2, <4>2
      <4> QED
          BY <1>4, <2>4, <4>1, <4>2, <4>3
    <3> QED
        BY <1>7, <2>2, <3>1, <3>2
  <2> QED
      BY <2>3, <2>4
<1>13. CASE ~(d <= r)
  <2>1. PICK m : m = out[b]
      OBVIOUS
  <2>2. Other(m) /\ \A x \in ToSet(o) : m.dist <= Dist(x[2], target)
      BY <1>5, <1>6, <1>9, <1>10, <2>1
  <2>3. CASE d - m.dist <= r
    <3>1. PICK n : n = in[m]
        OBVIOUS
    <3>2. /\ Other(n) /\ n.dist <= m.dist
          /\ \A x \in ToSet(i) : n.dist <= Dist(x[2], target)
        BY <1>6, <1>9, <1>11, <2>2, <3>1
    <3>3. Visit(node, target, best, in, out) = n
        BY <1>1, <1>3, <1>4, <1>13, <2>1, <2>3, <3>1 DEF Visit
    <3>4. \A x \in ToSet(s) : n.dist <= Dist(x[2], target)
        BY <1>5, <1>8, <1>11, <2>2, <3>2
    <3> QED
        BY <1>7, <3>2, <3>3, <3>4
  <2>4. CASE ~(d - m.dist <= r)
    <3>1. Visit(node, target, best, in, out) = m
        BY <1>1, <1>3, <1>4, <1>13, <2>1, <2>4 DEF Visit
    <3>2. ASSUME NEW x \in ToSet(s) PROVE m.dist <= Dist(x[2], target)
      <4>1. m.dist \in Nat /\ m.dist <= d
          BY <1>4, <1>5, <1>11, <2>2
      <4>2. PICK y, z : y = Dist(x[2], target) /\ z = Dist(v[2], x[2])
          OBVIOUS
      <4>3. /\ y \in Nat /\ z \in Nat /\ z <= d + y /\ d <= z + y
            /\ d = y \/ m.dist <= y \/ z <= r
          BY <1>8, <2>2, <4>2
      <4> QED
          BY <1>4, <2>4, <4>1, <4>2, <4>3
    <3> QED
        BY <1>7, <2>2, <3>1, <3>2
  <2> QED
      BY <2>3, <2>4
<1> QED
    BY <1>12, <1>13

Below(f, s, best, target) ==
    IF s = <<>> THEN best
    ELSE Visit(Build(s), target, best, f[Build(s).inside], f[Build(s).outside])

Searching(f, n, target) == f = [s \in Short(n) |-> [best \in Found |-> Below(f, s, best, target)]]

LEMMA HalvesAreShort ==
    ASSUME RigidityAssumption, NEW m \in Nat \ {0}, NEW s \in Short(m), s # <<>>
    PROVE  Build(s).inside \in Short(m - 1) /\ Build(s).outside \in Short(m - 1)
<1>1. s \in Seq(Items) /\ Len(s) <= m
    BY DEF Short
<1>2. Halves(Build(s), s)
    BY <1>1, BuildHalves
<1>3. PICK a, b : a = Build(s).inside /\ b = Build(s).outside
    OBVIOUS
<1>4. a \in Seq(Items) /\ b \in Seq(Items) /\ Len(a) < Len(s) /\ Len(b) < Len(s)
    BY <1>2, <1>3 DEF Halves
<1>5. Len(a) <= m - 1 /\ Len(b) <= m - 1
    BY <1>1, <1>4
<1> QED
    BY <1>3, <1>4, <1>5 DEF Short

LEMMA BelowFound ==
    ASSUME RigidityAssumption, NEW m \in Nat \ {0}, NEW s \in Short(m), NEW best \in Found,
           NEW target \in Nat, NEW f \in [Short(m - 1) -> [Found -> Found]]
    PROVE  Below(f, s, best, target) \in Found
<1>1. CASE s = <<>>
    BY <1>1 DEF Below
<1>2. CASE s # <<>>
  <2>1. s \in Seq(Items)
      BY DEF Short
  <2>2. PICK node : node = Build(s)
      OBVIOUS
  <2>3. Halves(node, s)
      BY <1>2, <2>1, <2>2, BuildHalves
  <2>4. f[node.inside] \in [Found -> Found] /\ f[node.outside] \in [Found -> Found]
      BY <1>2, <2>2, HalvesAreShort
  <2>5. Visit(node, target, best, f[node.inside], f[node.outside]) \in Found
      BY <1>2, <2>1, <2>3, <2>4, VisitFound
  <2> QED
      BY <1>2, <2>2, <2>5 DEF Below
<1> QED
    BY <1>1, <1>2

\* The equations of the recursive search have a solution: a search of m items
\* needs searches of fewer.
LEMMA SearchingExists ==
    ASSUME RigidityAssumption, NEW n \in Nat, NEW target \in Nat
    PROVE  \E f \in [Short(n) -> [Found -> Found]] : Searching(f, n, target)
<1> DEFINE S == {m \in 0..n : \E f \in [Short(m) -> [Found -> Found]] : Searching(f, m, target)}
<1>1. 0 \in S
  <2> DEFINE f == [s \in Short(0) |-> [best \in Found |-> best]]
  <2>1. \A s \in Short(0) : s = <<>>
      BY DEF Short
  <2>2. f \in [Short(0) -> [Found -> Found]]
      OBVIOUS
  <2>3. ASSUME NEW s \in Short(0)
        PROVE  f[s] = [best \in Found |-> Below(f, s, best, target)]
      BY <2>1 DEF Below
  <2>4. f = [s \in Short(0) |-> f[s]]
      OBVIOUS
  <2> HIDE DEF f
  <2>5. Searching(f, 0, target)
      BY <2>3, <2>4 DEF Searching
  <2> QED
      BY <2>2, <2>5
<1>2. ASSUME NEW m \in 1..n, m - 1 \in S PROVE m \in S
  <2>1. PICK f \in [Short(m - 1) -> [Found -> Found]] : Searching(f, m - 1, target)
      BY <1>2
  <2>2. m \in Nat \ {0} /\ m \in 0..n
      OBVIOUS
  <2> DEFINE e == [s \in Short(m) |-> [best \in Found |-> Below(f, s, best, target)]]
  <2>3. e \in [Short(m) -> [Found -> Found]]
    <3>1. \A s \in Short(m) : [best \in Found |-> Below(f, s, best, target)] \in [Found -> Found]
        BY <2>2, BelowFound
    <3> QED
        BY <3>1
  <2>4. ASSUME NEW t \in Short(m - 1) PROVE e[t] = f[t]
    <3>1. t \in Short(m)
        BY DEF Short
    <3>2. e[t] = [best \in Found |-> Below(f, t, best, target)]
        BY <3>1
    <3>3. f[t] = [best \in Found |-> Below(f, t, best, target)]
        BY <2>1 DEF Searching
    <3> QED
        BY <3>2, <3>3
  <2>5. ASSUME NEW s \in Short(m), NEW best \in Found
        PROVE  Below(e, s, best, target) = Below(f, s, best, target)
    <3> HIDE DEF e
    <3>1. CASE s = <<>>
        BY <3>1 DEF Below
    <3>2. CASE s # <<>>
      <4>1. /\ e[Build(s).inside] = f[Build(s).inside]
            /\ e[Build(s).outside] = f[Build(s).outside]
          BY <2>2, <2>4, <3>2, HalvesAreShort
      <4> QED
          BY <4>1 DEF Below
    <3> QED
        BY <3>1, <3>2
  <2>6. ASSUME NEW s \in Short(m) PROVE e[s] = [best \in Found |-> Below(e, s, best, target)]
    <3>1. e[s] = [best \in Found |-> Below(f, s, best, target)]
        OBVIOUS
    <3> HIDE DEF e
    <3> QED
        BY <2>5, <3>1
  <2>7. e = [s \in Short(m) |-> e[s]]
      OBVIOUS
  <2> HIDE DEF e
  <2>8. Searching(e, m, target)
      BY <2>6, <2>7 DEF Searching
  <2> QED
      BY <2>2, <2>3, <2>8
<1>3. n \in S
  <2> HIDE DEF S
  <2>1. \A k \in 1..n : k - 1 \in S => k \in S
      BY <1>2
  <2>2. \A k \in 0..n : k \in S
      BY <1>1, <2>1, CountingUp
  <2> QED
      BY <2>2
<1> QED
    BY <1>3

LEMMA SearchingImproves ==
    ASSUME RigidityAssumption, NEW n \in Nat, NEW target \in Nat,
           NEW f, Searching(f, n, target)
    PROVE  \A s \in Short(n), best \in Found : Improves(f[s][best], best, s, target)
<1> DEFINE S == {m \in 0..n : \A s \in Short(m) : /\ f[s] \in [Found -> Found]
                                                  /\ \A best \in Found : Improves(f[s][best], best, s, target)}
<1>0. \A m \in 0..n : \A s \in Short(m) : s \in Short(n)
    BY DEF Short
<1>1. \A s \in Short(n) : f[s] = [best \in Found |-> Below(f, s, best, target)]
    BY DEF Searching
<1>2. ASSUME NEW s \in Short(n), s = <<>>
      PROVE  f[s] \in [Found -> Found] /\ \A best \in Found : Improves(f[s][best], best, s, target)
  <2>1. f[s] = [best \in Found |-> best]
      BY <1>1, <1>2 DEF Below
  <2>2. ASSUME NEW best \in Found PROVE Improves(best, best, s, target)
    <3>1. best # Nothing => best.dist <= best.dist
        BY DEF Found
    <3>2. ToSet(s) = {}
        BY <1>2 DEF ToSet
    <3> QED
        BY <1>2, <3>1, <3>2 DEF Improves
  <2> QED
      BY <2>1, <2>2
<1>3. 0 \in S
  <2>1. \A s \in Short(0) : s = <<>>
      BY DEF Short
  <2> QED
      BY <1>0, <1>2, <2>1
<1>4. ASSUME NEW m \in 1..n, m - 1 \in S PROVE m \in S
  <2>1. m \in Nat \ {0} /\ m \in 0..n
      OBVIOUS
  <2>2. ASSUME NEW s \in Short(m), s # <<>>
        PROVE  f[s] \in [Found -> Found] /\ \A best \in Found : Improves(f[s][best], best, s, target)
    <3>1. PICK node : node = Build(s)
        OBVIOUS
    <3>2. s \in Seq(Items) /\ s \in Short(n)
        BY <1>0, <2>1 DEF Short
    <3>3. Halves(node, s)
        BY <2>2, <3>1, <3>2, BuildHalves
    <3>4. node.inside \in Short(m - 1) /\ node.outside \in Short(m - 1)
        BY <2>1, <2>2, <3>1, HalvesAreShort
    <3>5. PICK in, out : in = f[node.inside] /\ out = f[node.outside]
        OBVIOUS
    <3>6. /\ in \in [Found -> Found] /\ out \in [Found -> Found]
          /\ \A b \in Found : Improves(in[b], b, node.inside, target)
          /\ \A b \in Found : Improves(out[b], b, node.outside, target)
        BY <1>4, <3>4, <3>5
    <3>7. f[s] = [best \in Found |-> Visit(node, target, best, in, out)]
        BY <1>1, <2>2, <3>1, <3>2, <3>5 DEF Below
    <3>8. \A best \in Found : /\ Visit(node, target, best, in, out) \in Found
                              /\ Improves(Visit(node, target, best, in, out), best, s, target)
        BY <2>2, <3>2, <3>3, <3>6, VisitFound, VisitImproves
    <3> QED
        BY <3>7, <3>8
  <2>3. \A s \in Short(m) : s = <<>> =>
            f[s] \in [Found -> Found] /\ \A best \in Found : Improves(f[s][best], best, s, target)
      BY <1>0, <1>2, <2>1
  <2> QED
      BY <2>1, <2>2, <2>3
<1>5. n \in S
  <2> HIDE DEF S
  <2>1. \A k \in 1..n : k - 1 \in S => k \in S
      BY <1>4
  <2>2. \A k \in 0..n : k \in S
      BY <1>3, <2>1, CountingUp
  <2> QED
      BY <2>2
<1> QED
    BY <1>5

\* The search as a whole.
LEMMA NearestIsFound ==
    ASSUME RigidityAssumption, NEW items \in Seq(Items), items # <<>>, NEW target \in Nat
    PROVE  /\ \A x \in ToSet(items) : Nearest(items, target).dist <= Dist(x[2], target)
           /\ \E x \in ToSet(items) :
                 Nearest(items, target) = [key |-> x[1], dist |-> Dist(x[2], target)]
<1> DEFINE n == Len(items)
           f == CHOOSE f : Searching(f, n, target)
<1>1. n \in Nat /\ items \in Short(n)
    BY DEF Short
<1>2. Nearest(items, target) = f[items][Nothing]
    BY DEF Nearest, Searching, Below, Short, Items
<1> HIDE DEF n
<1>3. Searching(f, n, target)
    BY <1>1, SearchingExists
<1> HIDE DEF f
<1>4. Nothing \in Found
    BY DEF Found
<1>5. Improves(f[items][Nothing], Nothing, items, target)
    BY <1>1, <1>3, <1>4, SearchingImproves
<1> QED
    BY <1>2, <1>5 DEF Improves

-----------------------------------------------------------------------------
(* The waves.                                                              *)

Ends == NodeSet \cup {Open, Graft}

PortsType ==
    /\ ports \in [NodeSet -> Seq(Ends)]
    /\ \A n \in NodeSet : Len(ports[n]) <= 3

Walks(B) == [queue : Seq(B), wave : Seq(B), visited : SUBSET B]

NoRepeat(a) == \A i, j \in DOMAIN a : a[i] = a[j] => i = j

\* The first node is taken.  As long as it is alone, the partners it has are
\* in the queue, and none of them was visited.
Begun(w, n, B) ==
    /\ n \in w.visited
    /\ \/ Len(w.wave) >= 2
       \/ /\ Len(w.wave) = 1 /\ w.wave[1] = n
          /\ ToSet(Partners(n, B)) \subseteq {n} \cup ToSet(w.queue)
          /\ ToSet(w.queue) \cap w.visited = {}

Ended(w) == w.queue = <<>> \/ Len(w.wave) >= MaxBoundary

Start(n, B, v) == [queue |-> <<n>>, wave |-> Anchor(n, B, v), visited |-> v]

\* The walk from n after k rounds, when v was visited before.
Walked(w, k, n, B, v) ==
    /\ w \in Walks(B)
    /\ w.visited = v \cup ToSet(w.wave)
    /\ NoRepeat(w.wave) /\ Len(w.wave) <= MaxBoundary
    /\ Ended(w) \/ k + Len(w.queue) <= 1 + 3 * Len(w.wave)
    /\ IF k = 0 THEN w = Start(n, B, v) ELSE Begun(w, n, B)

LEMMA InSmallerSet ==
    ASSUME NEW T, NEW B, NEW a \in Seq(T), ToSet(a) \subseteq B
    PROVE  a \in Seq(B)
<1>1. \A i \in DOMAIN a : a[i] \in B
    BY DEF ToSet
<1> QED
    BY <1>1

LEMMA ToSetHead ==
    ASSUME NEW T, NEW q \in Seq(T), q # <<>>
    PROVE  /\ Head(q) \in T /\ Tail(q) \in Seq(T) /\ Len(Tail(q)) = Len(q) - 1
           /\ ToSet(q) = {Head(q)} \cup ToSet(Tail(q))
<1>1. Head(q) = q[1] /\ Tail(q) \in Seq(T) /\ Len(Tail(q)) = Len(q) - 1 /\ Len(q) >= 1
    OBVIOUS
<1>2. PICK t : t = Tail(q)
    OBVIOUS
<1>3. /\ \A i \in DOMAIN t : i + 1 \in DOMAIN q /\ t[i] = q[i + 1]
      /\ \A i \in DOMAIN q : i = 1 \/ (i - 1 \in DOMAIN t /\ q[i] = t[i - 1])
      /\ 1 \in DOMAIN q
    BY <1>1, <1>2
<1>4. ToSet(t) \subseteq ToSet(q)
    BY <1>3 DEF ToSet
<1>5. ToSet(q) \subseteq {q[1]} \cup ToSet(t)
    BY <1>3 DEF ToSet
<1>6. q[1] \in ToSet(q)
    BY <1>3 DEF ToSet
<1> QED
    BY <1>1, <1>2, <1>4, <1>5, <1>6

LEMMA PartnersFound ==
    ASSUME PortsType, NEW B, NEW n \in NodeSet
    PROVE  /\ Among(ports[n], B) \in Seq(B) /\ Len(Among(ports[n], B)) <= 3
           /\ ToSet(Among(ports[n], B)) = ToSet(ports[n]) \cap B
<1>1. PICK p : p = ports[n]
    OBVIOUS
<1>2. p \in Seq(Ends) /\ Len(p) <= 3
    BY <1>1 DEF PortsType
<1>3. PICK a : a = Among(p, B)
    OBVIOUS
<1>4. Selected(a, p, B, Ends)
    BY <1>2, <1>3, AmongSelects
<1>5. a \in Seq(Ends) /\ ToSet(a) = ToSet(p) \cap B /\ Len(a) <= Len(p)
    BY <1>4 DEF Selected
<1>6. a \in Seq(B)
    BY <1>5, InSmallerSet
<1> QED
    BY <1>1, <1>2, <1>3, <1>5, <1>6

\* d is what a round makes of the queue q, the wave a and the visited nodes u.
RoundOf(d, q, a, u, B) ==
    \E m \in B, t \in Seq(B) :
        /\ Len(t) = Len(q) - 1 /\ ToSet(q) = {m} \cup ToSet(t) /\ m = q[1]
        /\ m \in u \cup ToSet(a) => d = [queue |-> t, wave |-> a, visited |-> u]
        /\ m \notin u \cup ToSet(a) =>
              \E x \in Seq(B) :
                 /\ d = [queue |-> t \o x, wave |-> Append(a, m), visited |-> u \cup {m}]
                 /\ Len(x) <= 3
                 /\ ToSet(x) = ToSet(ports[m]) \cap (B \ (u \cup ToSet(a) \cup {m}))

LEMMA DequeuedIs ==
    ASSUME PortsType, NEW B \in SUBSET NodeSet, NEW q \in Seq(B), q # <<>>,
           NEW a \in Seq(B), NEW u \in SUBSET B,
           NEW w, w = [queue |-> q, wave |-> a, visited |-> u]
    PROVE  RoundOf(Dequeued(w, B), q, a, u, B)
<1>1. PICK m, t : m = Head(q) /\ t = Tail(q)
    OBVIOUS
<1>2. m \in B /\ t \in Seq(B) /\ Len(t) = Len(q) - 1 /\ ToSet(q) = {m} \cup ToSet(t) /\ m = q[1]
  <2>1. Head(q) = q[1]
      OBVIOUS
  <2> QED
      BY <1>1, <2>1, ToSetHead
<1>4. PICK C, x : C = B \ (u \cup ToSet(a) \cup {m}) /\ x = Among(ports[m], C)
    OBVIOUS
<1>5. x \in Seq(C) /\ Len(x) <= 3 /\ ToSet(x) = ToSet(ports[m]) \cap C
    BY <1>2, <1>4, PartnersFound
<1>6. x \in Seq(B)
  <2>1. ToSet(x) \subseteq B
      BY <1>4, <1>5
  <2> QED
      BY <1>5, <2>1, InSmallerSet
<1>7. Dequeued(w, B) = IF m \in u \cup ToSet(a) THEN [w EXCEPT !.queue = Tail(@)]
                       ELSE [queue |-> t \o x, wave |-> Append(a, m), visited |-> u \cup {m}]
    BY <1>1, <1>4 DEF Dequeued
<1>8. [w EXCEPT !.queue = Tail(@)] = [queue |-> t, wave |-> a, visited |-> u]
  <2>1. Tail(w.queue) = t
      BY <1>1
  <2>2. [w EXCEPT !.queue = Tail(@)] = [w EXCEPT !.queue = t]
      BY <2>1
  <2>3. [w EXCEPT !.queue = t] = [queue |-> t, wave |-> a, visited |-> u]
      OBVIOUS
  <2> QED
      BY <2>2, <2>3
<1> QED
    BY <1>2, <1>4, <1>5, <1>6, <1>7, <1>8 DEF RoundOf

LEMMA StartWalked ==
    ASSUME RigidityAssumption, PortsType, NEW B \in SUBSET NodeSet, NEW v \in SUBSET B, NEW n \in B
    PROVE  /\ Walked(Start(n, B, v), 0, n, B, v)
           /\ \/ Anchor(n, B, v) = <<>> /\ ToSet(ports[n]) \cap B \cap v = {}
              \/ \E m \in v : Anchor(n, B, v) = <<m>>
<1>1. PICK near : near = Among(ports[n], B \cap v)
    OBVIOUS
<1>2. near \in Seq(B \cap v) /\ ToSet(near) = ToSet(ports[n]) \cap (B \cap v)
    BY <1>1, PartnersFound
<1>3. PICK a : a = Anchor(n, B, v)
    OBVIOUS
<1>4. a = IF near = <<>> THEN <<>> ELSE <<near[1]>>
    BY <1>1, <1>3 DEF Anchor
<1>5. \/ a = <<>> /\ ToSet(ports[n]) \cap B \cap v = {}
      \/ \E m \in v : a = <<m>>
  <2>1. CASE near = <<>>
    <3>1. ToSet(near) = {}
        BY <2>1 DEF ToSet
    <3> QED
        BY <1>2, <1>4, <2>1, <3>1
  <2>2. CASE near # <<>>
    <3>1. near[1] \in B \cap v
        BY <1>2, <2>2
    <3> QED
        BY <1>4, <2>2, <3>1
  <2> QED
      BY <2>1, <2>2
<1>6. a \in Seq(B) /\ Len(a) <= 1 /\ ToSet(a) \subseteq v /\ NoRepeat(a)
  <2>1. CASE a = <<>>
      BY <2>1 DEF ToSet, NoRepeat
  <2>2. ASSUME NEW m \in v, a = <<m>> PROVE a \in Seq(B) /\ Len(a) <= 1 /\ ToSet(a) \subseteq v /\ NoRepeat(a)
      BY <2>2 DEF ToSet, NoRepeat
  <2> QED
      BY <1>5, <2>1, <2>2
<1>7. PICK w : w = Start(n, B, v)
    OBVIOUS
<1>8. w = [queue |-> <<n>>, wave |-> a, visited |-> v]
    BY <1>3, <1>7 DEF Start
<1>9. <<n>> \in Seq(B) /\ Len(<<n>>) = 1
    OBVIOUS
<1>10. w \in Walks(B) /\ w.visited = v \cup ToSet(w.wave) /\ w.wave = a /\ w.queue = <<n>>
    BY <1>6, <1>8, <1>9 DEF Walks
<1>11. Len(a) \in Nat /\ MaxBoundary >= 2 /\ MaxBoundary \in Nat
    BY <1>6 DEF RigidityAssumption
<1>12. Len(w.wave) <= MaxBoundary /\ 0 + Len(w.queue) <= 1 + 3 * Len(w.wave)
    BY <1>6, <1>9, <1>10, <1>11
<1>13. Walked(w, 0, n, B, v)
    BY <1>6, <1>7, <1>10, <1>12 DEF Walked
<1> QED
    BY <1>3, <1>5, <1>7, <1>13

\* A node that joins the wave.
LEMMA TakenOnce ==
    ASSUME NEW B, NEW a \in Seq(B), NEW m, NEW b, b = Append(a, m),
           NoRepeat(a), m \notin ToSet(a)
    PROVE  NoRepeat(b)
<1>1. /\ DOMAIN b = DOMAIN a \cup {Len(a) + 1}
      /\ \A i \in DOMAIN a : b[i] = a[i] /\ a[i] # m
      /\ b[Len(a) + 1] = m
  <2>1. /\ DOMAIN Append(a, m) = DOMAIN a \cup {Len(a) + 1}
        /\ \A i \in DOMAIN a : Append(a, m)[i] = a[i]
        /\ Append(a, m)[Len(a) + 1] = m
      OBVIOUS
  <2>2. \A i \in DOMAIN a : a[i] # m
      BY DEF ToSet
  <2> QED
      BY <2>1, <2>2
<1>2. PICK D, top : D = DOMAIN a /\ top = Len(a) + 1
    OBVIOUS
<1>3. ASSUME NEW i \in D \cup {top}, NEW j \in D \cup {top}, b[i] = b[j] PROVE i = j
    BY <1>1, <1>2, <1>3 DEF NoRepeat
<1> QED
    BY <1>1, <1>2, <1>3 DEF NoRepeat

LEMMA DequeuedWalked ==
    ASSUME RigidityAssumption, PortsType, NEW B \in SUBSET NodeSet, NEW v \in SUBSET B, NEW n \in B,
           n \notin v, NEW k \in Nat, NEW w, Walked(w, k, n, B, v), ~Ended(w)
    PROVE  Walked(Dequeued(w, B), k + 1, n, B, v)
<1>1. PICK q \in Seq(B), a \in Seq(B), u \in SUBSET B : w = [queue |-> q, wave |-> a, visited |-> u]
    BY DEF Walked, Walks
<1>2. w.queue = q /\ w.wave = a /\ w.visited = u
    BY <1>1
<1>3. /\ u = v \cup ToSet(a) /\ NoRepeat(a) /\ q # <<>> /\ Len(a) < MaxBoundary
      /\ k + Len(q) <= 1 + 3 * Len(a) /\ Len(a) \in Nat /\ Len(q) \in Nat
      /\ MaxBoundary \in Nat
    BY <1>2 DEF Walked, Ended, RigidityAssumption
<1>4. PICK m \in B, t \in Seq(B) :
        /\ Len(t) = Len(q) - 1 /\ ToSet(q) = {m} \cup ToSet(t) /\ m = q[1]
        /\ m \in u \cup ToSet(a) => Dequeued(w, B) = [queue |-> t, wave |-> a, visited |-> u]
        /\ m \notin u \cup ToSet(a) =>
              \E x \in Seq(B) :
                 /\ Dequeued(w, B)
                      = [queue |-> t \o x, wave |-> Append(a, m), visited |-> u \cup {m}]
                 /\ Len(x) <= 3
                 /\ ToSet(x) = ToSet(ports[m]) \cap (B \ (u \cup ToSet(a) \cup {m}))
  <2>1. RoundOf(Dequeued(w, B), q, a, u, B)
      BY <1>1, <1>3, DequeuedIs
  <2> QED
      BY <2>1 DEF RoundOf
<1>5. PICK d : d = Dequeued(w, B)
    OBVIOUS
<1>6. CASE m \in u
  <2>1. d = [queue |-> t, wave |-> a, visited |-> u]
      BY <1>3, <1>4, <1>5, <1>6
  <2>2. d \in Walks(B) /\ d.queue = t /\ d.wave = a /\ d.visited = u
      BY <2>1 DEF Walks
  <2>3. k + 1 + Len(t) <= 1 + 3 * Len(a)
      BY <1>3, <1>4
  <2>4. k # 0 /\ Begun(w, n, B)
    <3>1. k = 0 => q = <<n>> /\ u = v
        BY <1>2 DEF Walked, Start
    <3>2. k = 0 => m = n
        BY <1>4, <3>1
    <3> QED
        BY <1>6, <3>1, <3>2 DEF Walked
  <2>5. Begun(d, n, B)
    <3>1. Len(a) = 1 => ToSet(q) \cap u # {}
        BY <1>4, <1>6
    <3> QED
        BY <1>2, <2>2, <2>4, <3>1 DEF Begun
  <2>6. k + 1 # 0
      OBVIOUS
  <2> QED
      BY <1>3, <1>5, <2>2, <2>3, <2>5, <2>6 DEF Walked
<1>7. CASE m \notin u
  <2>1. PICK x \in Seq(B) :
            /\ d = [queue |-> t \o x, wave |-> Append(a, m), visited |-> u \cup {m}]
            /\ Len(x) <= 3
            /\ ToSet(x) = ToSet(ports[m]) \cap (B \ (u \cup ToSet(a) \cup {m}))
      BY <1>3, <1>4, <1>5, <1>7
  <2>2. PICK y, b, z : y = t \o x /\ b = Append(a, m) /\ z = u \cup {m}
      OBVIOUS
  <2>3. /\ y \in Seq(B) /\ Len(y) = Len(t) + Len(x) /\ ToSet(y) = ToSet(t) \cup ToSet(x)
        /\ b \in Seq(B) /\ Len(b) = Len(a) + 1 /\ ToSet(b) = ToSet(a) \cup {m}
        /\ z \in SUBSET B
    <3>1. y \in Seq(B) /\ Len(y) = Len(t) + Len(x)
        BY <2>2
    <3>2. ToSet(y) = ToSet(t) \cup ToSet(x)
        BY <2>2, ToSetConcat
    <3>3. b \in Seq(B) /\ Len(b) = Len(a) + 1
        BY <2>2
    <3>4. ToSet(b) = ToSet(a) \cup {m}
        BY <2>2, ToSetAppend
    <3> QED
        BY <2>2, <3>1, <3>2, <3>3, <3>4
  <2>4. d \in Walks(B) /\ d.queue = y /\ d.wave = b /\ d.visited = z
      BY <2>1, <2>2, <2>3 DEF Walks
  <2>5. z = v \cup ToSet(b)
      BY <1>3, <2>2, <2>3
  <2>6. m \notin ToSet(a)
      BY <1>3, <1>7
  <2>7. NoRepeat(b)
    <3>1. NoRepeat(a)
        BY <1>3
    <3> QED
        BY <2>2, <2>6, <3>1, TakenOnce
  <2>8. k + 1 + Len(y) <= 1 + 3 * Len(b) /\ Len(b) <= MaxBoundary
    <3>1. Len(x) \in Nat /\ Len(t) \in Nat
        OBVIOUS
    <3> QED
        BY <1>3, <1>4, <2>1, <2>3, <3>1
  <2>9. Begun(d, n, B)
    <3>1. CASE k = 0
      <4>1. w = Start(n, B, v)
          BY <3>1 DEF Walked
      <4>2. q = <<n>> /\ a = Anchor(n, B, v) /\ u = v
          BY <1>1, <4>1 DEF Start
      <4>3. m = n /\ t = <<>>
          BY <1>4, <4>2
      <4>4. \/ a = <<>> /\ ToSet(ports[n]) \cap B \cap v = {}
            \/ \E c \in v : a = <<c>>
          BY <4>2, StartWalked
      <4>5. ASSUME NEW c \in v, a = <<c>> PROVE Begun(d, n, B)
        <5>1. Len(b) >= 2
            BY <2>3, <4>5
        <5> QED
            BY <2>2, <2>4, <4>3, <5>1 DEF Begun
      <4>6. CASE a = <<>> /\ ToSet(ports[n]) \cap B \cap v = {}
        <5>1. Len(b) = 1 /\ b[1] = n
            BY <2>2, <4>3, <4>6
        <5>2. ToSet(a) = {} /\ ToSet(t) = {}
            BY <4>3, <4>6 DEF ToSet
        <5>3. ToSet(y) = ToSet(ports[n]) \cap (B \ (v \cup {n}))
            BY <2>1, <2>3, <4>2, <4>3, <5>2
        <5>4. ToSet(Partners(n, B)) = ToSet(ports[n]) \cap B
            BY PartnersFound DEF Partners
        <5>5. ToSet(Partners(n, B)) \subseteq {n} \cup ToSet(y)
            BY <4>6, <5>3, <5>4
        <5>6. ToSet(y) \cap z = {} /\ n \in z
            BY <2>2, <4>2, <4>3, <5>3
        <5> QED
            BY <2>4, <5>1, <5>5, <5>6 DEF Begun
      <4> QED
          BY <4>4, <4>5, <4>6
    <3>2. CASE k # 0
      <4>1. n \in u /\ Len(a) >= 1
          BY <1>2, <3>2 DEF Walked, Begun
      <4>2. Len(b) >= 2
          BY <1>3, <2>3, <4>1
      <4> QED
          BY <2>2, <2>4, <4>1, <4>2 DEF Begun
    <3> QED
        BY <3>1, <3>2
  <2>10. k + 1 # 0
      OBVIOUS
  <2> QED
      BY <1>5, <2>4, <2>5, <2>7, <2>8, <2>9, <2>10 DEF Walked
<1> QED
    BY <1>6, <1>7

Walking(f, n, B, v) ==
    f = [k \in 0..Rounds |-> IF k = 0 THEN Start(n, B, v)
                             ELSE IF Ended(f[k - 1]) THEN f[k - 1] ELSE Dequeued(f[k - 1], B)]

LEMMA RoundsIsNat ==
    ASSUME RigidityAssumption
    PROVE  Rounds \in Nat
BY DEF RigidityAssumption, Rounds

LEMMA DequeuedIsWalk ==
    ASSUME PortsType, NEW B \in SUBSET NodeSet, NEW w \in Walks(B), ~Ended(w)
    PROVE  Dequeued(w, B) \in Walks(B)
<1>1. PICK q \in Seq(B), a \in Seq(B), u \in SUBSET B : w = [queue |-> q, wave |-> a, visited |-> u]
    BY DEF Walks
<1>2. q # <<>>
    BY <1>1 DEF Ended
<1>3. PICK d : d = Dequeued(w, B)
    OBVIOUS
<1>4. RoundOf(d, q, a, u, B)
    BY <1>1, <1>2, <1>3, DequeuedIs
<1>5. PICK m \in B, t \in Seq(B) :
        /\ m \in u \cup ToSet(a) => d = [queue |-> t, wave |-> a, visited |-> u]
        /\ m \notin u \cup ToSet(a) =>
              \E x \in Seq(B) :
                 d = [queue |-> t \o x, wave |-> Append(a, m), visited |-> u \cup {m}]
    BY <1>4 DEF RoundOf
<1>6. CASE m \in u \cup ToSet(a)
    BY <1>3, <1>5, <1>6 DEF Walks
<1>7. CASE m \notin u \cup ToSet(a)
  <2>1. PICK x \in Seq(B) :
            d = [queue |-> t \o x, wave |-> Append(a, m), visited |-> u \cup {m}]
      BY <1>5, <1>7
  <2>2. t \o x \in Seq(B) /\ Append(a, m) \in Seq(B) /\ u \cup {m} \in SUBSET B
      OBVIOUS
  <2> QED
      BY <1>3, <2>1, <2>2 DEF Walks
<1> QED
    BY <1>6, <1>7

LEMMA WalkingExists ==
    ASSUME RigidityAssumption, PortsType, NEW B \in SUBSET NodeSet, NEW v \in SUBSET B, NEW n \in B
    PROVE  \E f : Walking(f, n, B, v)
<1> DEFINE g == [k \in 1..Rounds |-> [w \in Walks(B) |-> IF Ended(w) THEN w ELSE Dequeued(w, B)]]
<1>1. g \in [1..Rounds -> [Walks(B) -> Walks(B)]]
    BY DequeuedIsWalk
<1>2. Start(n, B, v) \in Walks(B) /\ Rounds \in Nat
    BY StartWalked, RoundsIsNat DEF Walked
<1>3. PICK f \in [0..Rounds -> Walks(B)] : Iterates(f, Start(n, B, v), g, Rounds)
  <2> HIDE DEF g
  <2> QED
      BY <1>1, <1>2, IterationExists
<1>4. ASSUME NEW k \in 0..Rounds
      PROVE  f[k] = IF k = 0 THEN Start(n, B, v)
                    ELSE IF Ended(f[k - 1]) THEN f[k - 1] ELSE Dequeued(f[k - 1], B)
  <2>1. f[k] = IF k = 0 THEN Start(n, B, v) ELSE g[k][f[k - 1]]
    <3> HIDE DEF g
    <3> QED
        BY <1>3 DEF Iterates
  <2>2. k # 0 => k \in 1..Rounds /\ f[k - 1] \in Walks(B)
      BY <1>2
  <2> QED
      BY <2>1, <2>2
<1>5. Walking(f, n, B, v)
  <2>1. f = [k \in 0..Rounds |-> f[k]]
      OBVIOUS
  <2> HIDE DEF g
  <2> QED
      BY <1>4, <2>1 DEF Walking
<1> QED
    BY <1>5

\* What verify_boundary relies on: a wave fits the kernel, has no node twice, and
\* is of one node only if that one is wired to no other of the boundary.
IsWave(w, B) ==
    /\ Len(w) <= MaxBoundary /\ Cardinality(ToSet(w)) = Len(w)
    /\ Len(w) = 1 => ToSet(Partners(w[1], B)) \subseteq {w[1]}

LEMMA NoRepeatCounts ==
    ASSUME NEW T, NEW a \in Seq(T), NoRepeat(a)
    PROVE  Cardinality(ToSet(a)) = Len(a)
<1> DEFINE P(k) == {a[i] : i \in 1..k}
           S == {k \in 0..Len(a) : IsFiniteSet(P(k)) /\ Cardinality(P(k)) = k}
<1>1. 0 \in S
  <2>1. P(0) = {}
      OBVIOUS
  <2>2. IsFiniteSet({}) /\ Cardinality({}) = 0
      BY FS_EmptySet
  <2>3. 0 \in 0..Len(a)
      OBVIOUS
  <2> HIDE DEF P
  <2> QED
      BY <2>1, <2>2, <2>3
<1>2. ASSUME NEW k \in 1..Len(a), k - 1 \in S PROVE k \in S
  <2>1. P(k) = P(k - 1) \cup {a[k]}
      OBVIOUS
  <2>2. a[k] \notin P(k - 1)
      BY DEF NoRepeat
  <2>3. k \in 0..Len(a)
      OBVIOUS
  <2>4. IsFiniteSet(P(k - 1)) /\ Cardinality(P(k - 1)) = k - 1
      BY <1>2
  <2> HIDE DEF P
  <2>5. /\ IsFiniteSet(P(k - 1) \cup {a[k]})
        /\ Cardinality(P(k - 1) \cup {a[k]}) = Cardinality(P(k - 1)) + 1
      BY <2>2, <2>4, FS_AddElement
  <2>6. IsFiniteSet(P(k)) /\ Cardinality(P(k)) = k
      BY <2>1, <2>4, <2>5
  <2> QED
      BY <2>3, <2>6
<1>3. Len(a) \in S
  <2> HIDE DEF S
  <2>1. \A k \in 1..Len(a) : k - 1 \in S => k \in S
      BY <1>2
  <2>2. Len(a) \in Nat
      OBVIOUS
  <2>3. \A k \in 0..Len(a) : k \in S
      BY <1>1, <2>1, <2>2, CountingUp
  <2> QED
      BY <2>2, <2>3
<1>4. ToSet(a) = P(Len(a))
    BY DEF ToSet
<1> QED
    BY <1>3, <1>4

\* The wave collected from n, which was not visited before, as v was.
LEMMA WaveIsCollected ==
    ASSUME RigidityAssumption, PortsType, NEW B \in SUBSET NodeSet, NEW v \in SUBSET B, NEW n \in B,
           n \notin v
    PROVE  LET w == CollectWave(n, B, v)
           IN  /\ w.wave \in Seq(B) /\ IsWave(w.wave, B)
               /\ w.visited \in SUBSET B /\ n \in w.visited
               /\ w.visited = v \cup ToSet(w.wave)
<1> DEFINE f == CHOOSE f : Walking(f, n, B, v)
<1>1. CollectWave(n, B, v) = f[Rounds]
    BY DEF CollectWave, Walking, Start, Ended
<1>2. Walking(f, n, B, v)
    BY WalkingExists
<1> HIDE DEF f
<1>3. Rounds \in Nat /\ Rounds = 3 * MaxBoundary + 1 /\ MaxBoundary \in Nat /\ MaxBoundary >= 2
    BY DEF RigidityAssumption, Rounds
<1> DEFINE S == {k \in 0..Rounds : \/ Walked(f[k], k, n, B, v)
                                   \/ k # 0 /\ Ended(f[k]) /\ \E j \in 1..k : Walked(f[k], j, n, B, v)}
<1>4. 0 \in S
  <2>1. 0 \in 0..Rounds /\ f[0] = Start(n, B, v)
      BY <1>2, <1>3 DEF Walking
  <2> QED
      BY <2>1, StartWalked
<1>5. ~Ended(Start(n, B, v))
  <2>1. PICK a : a = Anchor(n, B, v)
      OBVIOUS
  <2>2. a = <<>> \/ \E m \in v : a = <<m>>
      BY <2>1, StartWalked
  <2>3. Len(a) \in Nat /\ Len(a) <= 1
    <3>1. ASSUME NEW m, a = <<m>> PROVE Len(a) \in Nat /\ Len(a) <= 1
        BY <3>1
    <3> QED
        BY <2>2, <3>1
  <2>4. PICK w : w = Start(n, B, v)
      OBVIOUS
  <2>5. w.queue = <<n>> /\ w.wave = a
      BY <2>1, <2>4 DEF Start
  <2> QED
      BY <1>3, <2>3, <2>4, <2>5 DEF Ended
<1>6. ASSUME NEW k \in 1..Rounds, k - 1 \in S PROVE k \in S
  <2>1. /\ k \in 0..Rounds /\ k # 0 /\ k - 1 \in Nat
        /\ f[k] = IF Ended(f[k - 1]) THEN f[k - 1] ELSE Dequeued(f[k - 1], B)
      BY <1>2, <1>3 DEF Walking
  <2>2. PICK w : w = f[k - 1]
      OBVIOUS
  <2>3. CASE Ended(w)
    <3>1. f[k] = w
        BY <2>1, <2>2, <2>3
    <3>2. k - 1 # 0
      <4>1. k - 1 = 0 => w = Start(n, B, v)
          BY <1>2, <1>3, <2>2 DEF Walking
      <4> QED
          BY <1>5, <2>3, <4>1
    <3>3. \E j \in 1..(k - 1) : Walked(w, j, n, B, v)
        BY <1>6, <2>1, <2>2, <3>2
    <3>4. \E j \in 1..k : Walked(w, j, n, B, v)
        BY <3>3
    <3> QED
        BY <2>1, <2>3, <3>1, <3>4
  <2>4. CASE ~Ended(w)
    <3>1. Walked(w, k - 1, n, B, v)
        BY <1>6, <2>2, <2>4
    <3>2. Walked(Dequeued(w, B), k - 1 + 1, n, B, v)
        BY <2>1, <2>4, <3>1, DequeuedWalked
    <3>3. k - 1 + 1 = k
        OBVIOUS
    <3>4. f[k] = Dequeued(w, B)
        BY <2>1, <2>2, <2>4
    <3> QED
        BY <2>1, <3>2, <3>3, <3>4
  <2> QED
      BY <2>3, <2>4
<1>7. Rounds \in S
  <2> HIDE DEF S
  <2>1. \A k \in 1..Rounds : k - 1 \in S => k \in S
      BY <1>6
  <2>2. \A k \in 0..Rounds : k \in S
      BY <1>3, <1>4, <2>1, CountingUp
  <2> QED
      BY <1>3, <2>2
<1>8. PICK w : w = f[Rounds]
    OBVIOUS
<1>9. PICK j \in 1..Rounds : Walked(w, j, n, B, v) /\ (j = Rounds \/ Ended(w))
  <2>1. Rounds \in 1..Rounds
      BY <1>3
  <2>2. \/ Walked(w, Rounds, n, B, v)
        \/ Ended(w) /\ \E j \in 1..Rounds : Walked(w, j, n, B, v)
      BY <1>7, <1>8
  <2> QED
      BY <2>1, <2>2
<1>10. PICK q \in Seq(B), a \in Seq(B), u \in SUBSET B : w = [queue |-> q, wave |-> a, visited |-> u]
    BY <1>9 DEF Walked, Walks
<1>11. /\ w.queue = q /\ w.wave = a /\ w.visited = u
    BY <1>10
<1>12. /\ u = v \cup ToSet(a) /\ NoRepeat(a) /\ Len(a) <= MaxBoundary /\ Begun(w, n, B)
    BY <1>9, <1>11 DEF Walked
<1>13. Len(a) = 1 => q = <<>>
  <2>1. CASE Ended(w)
      BY <1>3, <1>11, <2>1 DEF Ended
  <2>2. CASE ~Ended(w)
    <3>1. j = Rounds /\ j + Len(q) <= 1 + 3 * Len(a) /\ q # <<>> /\ ~(Len(a) >= MaxBoundary)
        BY <1>9, <1>11, <2>2 DEF Walked, Ended
    <3>2. Len(q) \in Nat /\ Len(a) \in Nat
        OBVIOUS
    <3> QED
        BY <1>3, <3>1, <3>2
  <2> QED
      BY <2>1, <2>2
<1>14. Len(a) = 1 => ToSet(Partners(a[1], B)) \subseteq {a[1]}
  <2>1. ToSet(<<>>) = {}
      BY DEF ToSet
  <2> QED
      BY <1>11, <1>12, <1>13, <2>1 DEF Begun
<1>15. Cardinality(ToSet(a)) = Len(a)
    BY <1>12, NoRepeatCounts
<1>16. IsWave(a, B)
    BY <1>12, <1>14, <1>15 DEF IsWave
<1>17. n \in u
    BY <1>11, <1>12 DEF Begun
<1> QED
    BY <1>1, <1>8, <1>11, <1>12, <1>16, <1>17

-----------------------------------------------------------------------------
(* The invariant.                                                          *)

AllOf(ws) == UNION {ToSet(ws[k]) : k \in DOMAIN ws}

\* A sweep of the boundary b with t still to do, that has visited v in the waves ws.
Swept(b, t, v, ws) ==
    /\ v \subseteq ToSet(b) /\ ToSet(t) \subseteq ToSet(b) /\ ToSet(b) \subseteq v \cup ToSet(t)
    /\ v = AllOf(ws)
    /\ \A k \in DOMAIN ws : IsWave(ws[k], ToSet(b))

SweepOf(b, t, v, ws, c) ==
    [phase |-> "sweep", boundary |-> b, todo |-> t, visited |-> v, waves |-> ws, failures |-> c]

SweepInv ==
    \/ sweep = NoSweep
    \/ \E b, t \in Seq(NodeSet), ws \in Seq(Seq(NodeSet)) : \E v, c :
          sweep = SweepOf(b, t, v, ws, c) /\ Swept(b, t, v, ws)

GeometryInv == PortsType /\ point \in [NodeSet -> Places \cup {NoPlace}] /\ SweepInv

LEMMA OrderIsLocated ==
    ASSUME RigidityAssumption
    PROVE  /\ Located(Order) \in Seq(NodeSet)
           /\ ToSet(Located(Order)) = {n \in NodeSet : point[n] # NoPlace}
<1> DEFINE C == {n \in NodeSet : point[n] # NoPlace}
<1>1. PICK a : a = Among(Order, C)
    OBVIOUS
<1>2. Order \in Seq(NodeSet)
    BY DEF RigidityAssumption
<1>3. Selected(a, Order, C, NodeSet)
    BY <1>1, <1>2, AmongSelects
<1>4. a \in Seq(NodeSet) /\ ToSet(a) = ToSet(Order) \cap C
    BY <1>3 DEF Selected
<1>5. ToSet(a) = C
    BY <1>4 DEF NodeSet
<1> QED
    BY <1>1, <1>4, <1>5 DEF Located

LEMMA InitIsSound ==
    ASSUME RigidityAssumption, GeometryInit
    PROVE  GeometryInv
<1>1. ports \in [NodeSet -> Seq(NodeSet \cup {Open})] /\ \A n \in NodeSet : Len(ports[n]) <= 3
    BY DEF GeometryInit, RigidityAssumption
<1>2. ASSUME NEW n \in NodeSet PROVE ports[n] \in Seq(Ends)
  <2>1. ports[n] \in Seq(NodeSet \cup {Open})
      BY <1>1
  <2>2. \A i \in DOMAIN ports[n] : ports[n][i] \in Ends
      BY <2>1 DEF Ends
  <2> QED
      BY <2>1, <2>2
<1>3. PortsType
  <2>1. ports \in [NodeSet -> Seq(Ends)]
      BY <1>1, <1>2
  <2> QED
      BY <1>1, <2>1 DEF PortsType
<1> QED
    BY <1>3 DEF GeometryInit, GeometryInv, SweepInv

LEMMA BeginIsSound ==
    ASSUME RigidityAssumption, GeometryInv, BeginSweep
    PROVE  GeometryInv'
<1>1. PICK b : b = Located(Order)
    OBVIOUS
<1>2. b \in Seq(NodeSet)
    BY <1>1, OrderIsLocated
<1>3. sweep' = SweepOf(b, b, {}, <<>>, 0) /\ UNCHANGED <<ports, point>>
    BY <1>1 DEF BeginSweep, SweepOf
<1>4. Swept(b, b, {}, <<>>)' /\ <<>> \in Seq(Seq(NodeSet))
    BY DEF Swept, AllOf
<1>5. SweepInv'
    BY <1>2, <1>3, <1>4 DEF SweepInv
<1> QED
    BY <1>3, <1>5 DEF GeometryInv, PortsType

\* xs are the waves ws and w.
GrownBy(w, ws, xs) ==
    /\ xs \in Seq(Seq(NodeSet))
    /\ AllOf(xs) = AllOf(ws) \cup ToSet(w)
    /\ \A k \in DOMAIN xs : xs[k] = w \/ (k \in DOMAIN ws /\ xs[k] = ws[k])

LEMMA WavesGrow ==
    ASSUME NEW ws \in Seq(Seq(NodeSet)), NEW w \in Seq(NodeSet), NEW xs, xs = Append(ws, w)
    PROVE  GrownBy(w, ws, xs)
<1>1. /\ Append(ws, w) \in Seq(Seq(NodeSet))
      /\ DOMAIN Append(ws, w) = DOMAIN ws \cup {Len(ws) + 1}
      /\ \A k \in DOMAIN ws : Append(ws, w)[k] = ws[k]
      /\ Append(ws, w)[Len(ws) + 1] = w
    OBVIOUS
<1>2. PICK D, top : D = DOMAIN ws /\ top = Len(ws) + 1
    OBVIOUS
<1>3. /\ DOMAIN xs = D \cup {top} /\ xs[top] = w
      /\ \A k \in D : xs[k] = ws[k]
    BY <1>1, <1>2
<1>4. \A x : x \in AllOf(xs) <=> x \in AllOf(ws) \/ x \in ToSet(w)
    BY <1>2, <1>3 DEF AllOf
<1>5. AllOf(xs) = AllOf(ws) \cup ToSet(w)
    BY <1>4
<1>6. xs \in Seq(Seq(NodeSet))
    BY <1>1
<1>7. \A k \in DOMAIN xs : xs[k] = w \/ (k \in DOMAIN ws /\ xs[k] = ws[k])
  <2> SUFFICES ASSUME NEW k \in DOMAIN xs PROVE xs[k] = w \/ (k \in D /\ xs[k] = ws[k])
      BY <1>2
  <2>1. CASE k = top
      BY <1>3, <2>1
  <2>2. CASE k \in D
      BY <1>3, <2>2
  <2> QED
      BY <1>3, <2>1, <2>2
<1> QED
    BY <1>5, <1>6, <1>7 DEF GrownBy

LEMMA WaveIsSound ==
    ASSUME RigidityAssumption, GeometryInv, SweepWave
    PROVE  GeometryInv'
<1>1. sweep # NoSweep
    BY DEF SweepWave, NoSweep
<1>2. PICK b \in Seq(NodeSet), t \in Seq(NodeSet), ws \in Seq(Seq(NodeSet)) : \E v, c :
          sweep = SweepOf(b, t, v, ws, c) /\ Swept(b, t, v, ws)
    BY <1>1 DEF GeometryInv, SweepInv
<1>3. PICK v, c : sweep = SweepOf(b, t, v, ws, c) /\ Swept(b, t, v, ws)
    BY <1>2
<1>4. sweep.todo = t /\ sweep.boundary = b /\ sweep.visited = v /\ sweep.waves = ws
    BY <1>3 DEF SweepOf
<1>5. PICK n, r : n = Head(t) /\ r = Tail(t)
    OBVIOUS
<1>6. t # <<>> /\ UNCHANGED <<ports, point>>
    BY <1>4 DEF SweepWave
<1>7. n \in NodeSet /\ r \in Seq(NodeSet) /\ ToSet(t) = {n} \cup ToSet(r)
    BY <1>5, <1>6, ToSetHead
<1>8. PICK B : B = ToSet(b)
    OBVIOUS
<1>9. B \in SUBSET NodeSet /\ n \in B /\ v \in SUBSET B
  <2>1. B \subseteq NodeSet
      BY <1>8 DEF ToSet
  <2> QED
      BY <1>3, <1>7, <1>8, <2>1 DEF Swept
<1>10. PortsType
    BY DEF GeometryInv
<1>11. \A w, S : IsWave(w, S) <=> IsWave(w, S)'
    BY <1>6 DEF IsWave, Partners, Among
<1>12. CASE n \in v
  <2>1. sweep' = [sweep EXCEPT !.todo = Tail(@)]
      BY <1>4, <1>5, <1>12 DEF SweepWave
  <2>2. sweep' = SweepOf(b, r, v, ws, c)
    <3>1. sweep' = [sweep EXCEPT !.todo = r]
        BY <1>4, <1>5, <2>1
    <3> QED
        BY <1>3, <3>1 DEF SweepOf
  <2>3. Swept(b, r, v, ws)'
      BY <1>3, <1>7, <1>11, <1>12 DEF Swept
  <2>4. SweepInv'
      BY <1>7, <2>2, <2>3 DEF SweepInv
  <2> QED
      BY <1>6, <2>4 DEF GeometryInv, PortsType
<1>13. CASE n \notin v
  <2>1. PICK w : w = CollectWave(n, B, v)
      OBVIOUS
  <2>2. /\ w.wave \in Seq(B) /\ IsWave(w.wave, B) /\ w.visited \in SUBSET B /\ n \in w.visited
        /\ w.visited = v \cup ToSet(w.wave)
      BY <1>9, <1>10, <1>13, <2>1, WaveIsCollected
  <2>3. PICK e, xs, a, u : /\ e = sweep.failures + IF Collapsed(w.wave) THEN 1 ELSE 0
                           /\ xs = Append(ws, w.wave) /\ a = w.wave /\ u = w.visited
      OBVIOUS
  <2>4. sweep' = SweepOf(b, r, u, xs, e)
      BY <1>4, <1>5, <1>8, <1>13, <2>1, <2>3 DEF SweepWave, SweepOf
  <2>5. a \in Seq(NodeSet) /\ xs = Append(ws, a)
      BY <1>9, <2>2, <2>3
  <2>6. GrownBy(a, ws, xs)
      BY <2>5, WavesGrow
  <2>7. Swept(b, r, u, xs)'
    <3>1. u \subseteq ToSet(b) /\ ToSet(r) \subseteq ToSet(b) /\ ToSet(b) \subseteq u \cup ToSet(r)
        BY <1>3, <1>7, <1>8, <2>2, <2>3 DEF Swept
    <3>2. u = AllOf(xs)
        BY <1>3, <2>2, <2>3, <2>6 DEF Swept, GrownBy
    <3>3. \A k \in DOMAIN xs : IsWave(xs[k], ToSet(b))'
        BY <1>3, <1>8, <1>11, <2>2, <2>3, <2>6 DEF Swept, GrownBy
    <3> QED
        BY <3>1, <3>2, <3>3 DEF Swept
  <2>8. SweepInv'
      BY <1>7, <2>4, <2>6, <2>7 DEF SweepInv, GrownBy
  <2> QED
      BY <1>6, <2>8 DEF GeometryInv, PortsType
<1> QED
    BY <1>12, <1>13

LEMMA GraftIsSound ==
    ASSUME RigidityAssumption, GeometryInv, NEW n \in NodeSet, NEW i \in 2..3, HealUnterminated(n, i)
    PROVE  GeometryInv'
<1>1. PICK p \in Seq(Ends) : p = ports[n] /\ Len(p) <= 3
    BY DEF GeometryInv, PortsType
<1>2. /\ i \in DOMAIN p /\ sweep = NoSweep /\ UNCHANGED <<point, sweep>>
      /\ ports' = [ports EXCEPT ![n] = [p EXCEPT ![i] = Graft]]
    BY <1>1 DEF HealUnterminated, Unterminated
<1>3. [p EXCEPT ![i] = Graft] \in Seq(Ends) /\ Len([p EXCEPT ![i] = Graft]) <= 3
  <2>1. Graft \in Ends
      BY DEF Ends
  <2> QED
      BY <1>1, <1>2, <2>1
<1>4. PortsType'
    BY <1>2, <1>3 DEF GeometryInv, PortsType
<1> QED
    BY <1>2, <1>4 DEF GeometryInv, SweepInv

LEMMA GeometryStep ==
    ASSUME RigidityAssumption, GeometryInv, [GeometryNext]_geometry
    PROVE  GeometryInv'
<1>1. ASSUME NEW n \in NodeSet, NEW p \in Places, Annotate(n, p) PROVE GeometryInv'
    BY <1>1 DEF Annotate, GeometryInv, PortsType, SweepInv
<1>2. CASE BeginSweep
    BY <1>2, BeginIsSound
<1>3. CASE SweepWave
    BY <1>3, WaveIsSound
<1>4. CASE EndSweep
    BY <1>4 DEF EndSweep, GeometryInv, PortsType, SweepInv
<1>5. ASSUME NEW n \in NodeSet, NEW i \in 2..3, HealUnterminated(n, i) PROVE GeometryInv'
    BY <1>5, GraftIsSound
<1>6. CASE UNCHANGED geometry
    BY <1>6 DEF geometry, GeometryInv, PortsType, SweepInv, Swept, IsWave, Partners
<1> QED
    BY <1>1, <1>2, <1>3, <1>4, <1>5, <1>6 DEF GeometryNext

\* For every net, boundary and sequence of sweeps and repairs: a sweep visits all
\* the boundary, in waves that fit the kernel, and leaves no node alone that is
\* wired to another of the boundary.
THEOREM SweepsAreWhole ==
    ASSUME RigidityAssumption
    PROVE  GeometrySpec => []SweepCoversBoundary
<1>1. GeometryInit => GeometryInv
    BY InitIsSound
<1>2. GeometryInv /\ [GeometryNext]_geometry => GeometryInv'
    BY GeometryStep
<1>3. GeometryInv => SweepCoversBoundary
  <2> SUFFICES ASSUME GeometryInv, sweep.phase = "sweep" PROVE SweepCoversBoundary
      BY DEF SweepCoversBoundary
  <2>1. sweep # NoSweep
      BY DEF NoSweep
  <2>2. PICK b \in Seq(NodeSet), t \in Seq(NodeSet), ws \in Seq(Seq(NodeSet)) : \E v, c :
            sweep = SweepOf(b, t, v, ws, c) /\ Swept(b, t, v, ws)
      BY <2>1 DEF GeometryInv, SweepInv
  <2>3. PICK v, c : sweep = SweepOf(b, t, v, ws, c) /\ Swept(b, t, v, ws)
      BY <2>2
  <2>4. sweep.todo = t /\ sweep.boundary = b /\ sweep.visited = v /\ sweep.waves = ws
      BY <2>3 DEF SweepOf
  <2>5. t = <<>> => v = ToSet(b)
    <3>1. ToSet(<<>>) = {}
        BY DEF ToSet
    <3> QED
        BY <2>3, <3>1 DEF Swept
  <2>6. \A k \in DOMAIN ws : IsWave(ws[k], ToSet(b))
      BY <2>3 DEF Swept
  <2>7. v = UNION {ToSet(ws[k]) : k \in DOMAIN ws}
      BY <2>3 DEF Swept, AllOf
  <2>8. ASSUME NEW k \in DOMAIN ws
        PROVE  LET w == ws[k]
               IN  /\ Len(w) <= MaxBoundary /\ Cardinality(ToSet(w)) = Len(w)
                   /\ Len(w) = 1 => ToSet(Partners(w[1], ToSet(b))) \subseteq {w[1]}
      BY <2>6 DEF IsWave
  <2>9. sweep.visited = UNION {ToSet(sweep.waves[k]) : k \in DOMAIN sweep.waves}
      BY <2>4, <2>7, Zenon
  <2>10. sweep.todo = <<>> => sweep.visited = ToSet(sweep.boundary)
      BY <2>4, <2>5, Zenon
  <2>11. \A k \in DOMAIN sweep.waves :
            LET w == sweep.waves[k]
            IN  /\ Len(w) <= MaxBoundary /\ Cardinality(ToSet(w)) = Len(w)
                /\ Len(w) = 1 =>
                      ToSet(Partners(w[1], ToSet(sweep.boundary))) \subseteq {w[1]}
      BY <2>4, <2>8, Zenon
  <2> QED
      BY <2>9, <2>10, <2>11, Zenon DEF SweepCoversBoundary
<1> QED
    BY <1>1, <1>2, <1>3, PTL DEF GeometrySpec

\* For every net and all coordinates: the search of the vantage-point tree finds a
\* node as near to the target as any.
THEOREM NothingNearerIsPruned ==
    ASSUME RigidityAssumption
    PROVE  GeometrySpec => []NearestIsNearest
<1>1. GeometryInit => GeometryInv
    BY InitIsSound
<1>2. GeometryInv /\ [GeometryNext]_geometry => GeometryInv'
    BY GeometryStep
<1>3. GeometryInv => NearestIsNearest
  <2> SUFFICES ASSUME GeometryInv, HistoryItems # <<>>, NEW target \in Places
               PROVE  LET found == Nearest(HistoryItems, target)
                      IN  /\ point[found.key] # NoPlace
                          /\ Dist(point[found.key], target) = found.dist
                          /\ \A n \in NodeSet : point[n] # NoPlace =>
                                found.dist <= Dist(point[n], target)
      BY DEF NearestIsNearest
  <2>1. PICK h : h = Located(Order)
      OBVIOUS
  <2>2. h \in Seq(NodeSet) /\ ToSet(h) = {n \in NodeSet : point[n] # NoPlace}
      BY <2>1, OrderIsLocated
  <2>3. PICK items : items = HistoryItems
      OBVIOUS
  <2>4. items = [k \in DOMAIN h |-> <<h[k], point[h[k]]>>]
      BY <2>1, <2>3 DEF HistoryItems
  <2>5. \A k \in DOMAIN h : <<h[k], point[h[k]]>> \in Items
    <3>1. \A n \in ToSet(h) : n \in NodeSet /\ point[n] \in Places
        BY <2>2 DEF GeometryInv
    <3>2. \A k \in DOMAIN h : h[k] \in ToSet(h)
        BY DEF ToSet
    <3> QED
        BY <3>1, <3>2 DEF Items
  <2>6. items \in Seq(Items) /\ DOMAIN items = DOMAIN h
    <3>1. DOMAIN h = 1..Len(h) /\ Len(h) \in Nat
        BY <2>2
    <3> QED
        BY <2>4, <2>5, <3>1
  <2>7. target \in Nat
      BY DEF RigidityAssumption
  <2>8. PICK found : found = Nearest(items, target)
      OBVIOUS
  <2>9. /\ \A x \in ToSet(items) : found.dist <= Dist(x[2], target)
        /\ \E x \in ToSet(items) : found = [key |-> x[1], dist |-> Dist(x[2], target)]
      BY <2>3, <2>6, <2>7, <2>8, NearestIsFound
  <2>10. PICK k \in DOMAIN h : found = [key |-> h[k], dist |-> Dist(point[h[k]], target)]
    <3>1. \A x \in ToSet(items) : \E k \in DOMAIN h : x = <<h[k], point[h[k]]>>
        BY <2>4, <2>6 DEF ToSet
    <3> QED
        BY <2>9, <3>1
  <2>11. h[k] \in ToSet(h)
      BY DEF ToSet
  <2>12. \A n \in ToSet(h) : <<n, point[n]>> \in ToSet(items)
      BY <2>4, <2>6 DEF ToSet
  <2>13. ASSUME NEW n \in NodeSet, point[n] # NoPlace
         PROVE  found.dist <= Dist(point[n], target)
    <3>1. PICK x : x = <<n, point[n]>>
        OBVIOUS
    <3>2. x \in ToSet(items) /\ x[2] = point[n]
        BY <2>2, <2>12, <2>13, <3>1
    <3> QED
        BY <2>9, <3>2
  <2> QED
      BY <2>2, <2>3, <2>8, <2>10, <2>11, <2>13
<1> QED
    BY <1>1, <1>2, <1>3, PTL DEF GeometrySpec

=============================================================================
