--------------------------- MODULE SpacetimeLedger ---------------------------
(***************************************************************************)
(* The file context.aero and the two drivers that extend it:               *)
(* BlockUniverseLedger (core/spacetime_ledger.py) with the                 *)
(* PathIntegralCache kept on top of it, and CryptographicLedger            *)
(* (evolve.py), which keeps another record format in the same file.  A     *)
(* session is a process that holds one driver: it reads the file once,     *)
(* when the driver is made, and then rewrites it from memory on every      *)
(* append.                                                                 *)
(*                                                                         *)
(* SHA-256 is taken to be injective: the hash of a block is the sequence   *)
(* of everything hashed on the way to it, and "" is the empty sequence.    *)
(***************************************************************************)
EXTENDS Integers, Sequences, FiniteSets

CONSTANTS Sessions,     \* processes
          DriverOf,     \* the driver each of them makes: "block" or "crypto"
          Nodes,        \* nodes that are annotated
          Signatures,   \* active pairs the cache records
          Genomes,      \* what CryptographicLedger records
          None,         \* Python's None, a missing key
          MaxBlocks,    \* bound on the length of a chain
          Conditions    \* the sets of things that may happen in one execution

LedgerAssumption ==
  /\ DriverOf \in [Sessions -> {"block", "crypto"}]
  /\ MaxBlocks \in Nat
  /\ Conditions \subseteq SUBSET {"overlap", "faults", "reseeds"}

ASSUME LedgerConstants == LedgerAssumption

Keys == {"ledger", "mutation_history"}

\* "overlap": two sessions may be open at the same time; "faults": a session
\* may die or fail to write; "reseeds": context_init may be run again.
VARIABLES may,       \* what may happen in this execution
          disk,      \* the file: "absent", "whole", "empty" (just truncated) or "torn"
          content,   \* the last document the file held completely
          open,      \* the sessions that hold a driver
          doc,       \* _data, or data: the document each of them holds
          key,       \* CHAIN_KEY
          step,      \* where a session is in append: "idle", "appended", "truncated"
          coord,     \* annotations: the T_causal of each annotated node
          memo       \* PathIntegralCache._memo

vars == <<may, disk, content, open, doc, key, step, coord, memo>>

NoDocument == [k \in Keys |-> None]
NoCoord    == [n \in Nodes |-> None]
NoMemo     == [g \in Signatures |-> None]

\* The history a session extends.
Chain(s) == doc[s][key[s]]

Hash(prev, item) == Append(prev, item)

\* Mutant: every block is linked to the first one.
LastHash_First(chain) == IF chain = <<>> THEN <<>> ELSE chain[1].hash

LastHash(chain) == IF chain = <<>> THEN <<>> ELSE chain[Len(chain)].hash

\* append_transaction: the block, which carries its index as T_causal.
Block(chain, payload) ==
  [by |-> "block", t |-> Len(chain), payload |-> payload, prev |-> LastHash(chain),
   hash |-> Hash(LastHash(chain), [t |-> Len(chain), payload |-> payload])]

\* append_entry: the entry, whose identity does not depend on its generation.
Entry(chain, genome) ==
  [by |-> "crypto", t |-> Len(chain) + 1, payload |-> genome, prev |-> LastHash(chain),
   hash |-> Hash(LastHash(chain), [t |-> None, payload |-> genome])]

\* chain[-1]["block_hash"], or history[-1]["mutation_id"], is there to be read.
Extensible(s) == Chain(s) # <<>> => Chain(s)[Len(Chain(s))].by = DriverOf[s]

-----------------------------------------------------------------------------
(* Making a driver. *)

\* _load: an unreadable file is taken for an empty ledger, and a document with
\* only a mutation_history is extended there.
LoadKey(file) ==
  IF file["ledger"] = None /\ file["mutation_history"] # None
    THEN "mutation_history" ELSE "ledger"

LoadBlock(file) ==
  IF file[LoadKey(file)] = None THEN [file EXCEPT !["ledger"] = <<>>] ELSE file

\* The setdefault of append_entry is taken here: until then read_chain answers
\* with an empty list where the key is missing.
LoadCrypto(file) ==
  IF file["mutation_history"] = None THEN [file EXCEPT !["mutation_history"] = <<>>] ELSE file

Readable == IF disk = "whole" THEN content ELSE NoDocument

\* _hydrate_from_ledger: the last record of a signature wins.
Records(chain, g) == {i \in DOMAIN chain : chain[i].payload[1] = "sig" /\ chain[i].payload[2] = g}

Hydrate(chain) ==
  [g \in Signatures |->
     IF Records(chain, g) = {} THEN None
     ELSE LET i == CHOOSE i \in Records(chain, g) : \A j \in Records(chain, g) : j <= i
          IN  [weight |-> chain[i].payload[3], t |-> chain[i].t]]

MayOpen(s) == s \notin open /\ ("overlap" \in may \/ open = {})

\* BlockUniverseLedger(path) and PathIntegralCache(ledger).  The constructor
\* writes an empty ledger where there is no file; a process that dies half way
\* leaves a file that reads as an empty ledger too.
OpenBlockLedger(s) ==
  /\ DriverOf[s] = "block" /\ MayOpen(s)
  /\ LET file   == IF disk = "absent" THEN [NoDocument EXCEPT !["ledger"] = <<>>] ELSE Readable
         loaded == LoadBlock(file)
     IN  /\ disk' = IF disk = "absent" THEN "whole" ELSE disk
         /\ content' = IF disk = "absent" THEN file ELSE content
         /\ doc' = [doc EXCEPT ![s] = loaded]
         /\ open' = open \cup {s}
         /\ key' = [key EXCEPT ![s] = LoadKey(file)]
         /\ memo' = [memo EXCEPT ![s] = Hydrate(loaded[LoadKey(file)])]
  /\ coord' = [coord EXCEPT ![s] = NoCoord]
  /\ UNCHANGED <<may, step>>

\* CryptographicLedger(path)
OpenCryptoLedger(s) ==
  /\ DriverOf[s] = "crypto" /\ MayOpen(s)
  /\ doc' = [doc EXCEPT ![s] = LoadCrypto(Readable)]
  /\ open' = open \cup {s}
  /\ key' = [key EXCEPT ![s] = "mutation_history"]
  /\ UNCHANGED <<may, disk, content, step, coord, memo>>

\* The session is over; it will make another driver next time.
Leaves(s) ==
  /\ open' = open \ {s}
  /\ doc' = [doc EXCEPT ![s] = NoDocument]
  /\ step' = [step EXCEPT ![s] = "idle"]
  /\ coord' = [coord EXCEPT ![s] = NoCoord]
  /\ memo' = [memo EXCEPT ![s] = NoMemo]
  /\ UNCHANGED key

Close(s) ==
  /\ s \in open /\ step[s] = "idle"
  /\ Leaves(s)
  /\ UNCHANGED <<may, disk, content>>

-----------------------------------------------------------------------------
(* Appending: the chain in memory first, then the file, rewritten whole. *)

Ready(s) == s \in open /\ step[s] = "idle" /\ Len(Chain(s)) < MaxBlocks

Appends(s, block) ==
  /\ Extensible(s)
  /\ doc' = [doc EXCEPT ![s][key[s]] = Append(Chain(s), block)]
  /\ step' = [step EXCEPT ![s] = "appended"]
  /\ UNCHANGED <<may, disk, content, open, key, coord>>

\* annotate_node: its effects on the node come after the write (Flush).
AnnotateNode(s, n) ==
  /\ DriverOf[s] = "block" /\ Ready(s)
  /\ Appends(s, Block(Chain(s), <<"node", n>>))
  /\ UNCHANGED memo

\* PathIntegralCache.record: the weight grows before the block is appended.
Reinforced(s, g) ==
  IF memo[s][g] = None THEN [weight |-> 1, t |-> None]
  ELSE [memo[s][g] EXCEPT !.weight = @ + 1]

RecordPathIntegral(s, g) ==
  /\ DriverOf[s] = "block" /\ Ready(s)
  /\ memo' = [memo EXCEPT ![s][g] = Reinforced(s, g)]
  /\ Appends(s, Block(Chain(s), <<"sig", g, Reinforced(s, g).weight>>))

\* Mutant: append_entry writes a new document with its own key only.
AppendEntry_OwnKeyOnly(s, genome) ==
  /\ DriverOf[s] = "crypto" /\ Ready(s) /\ Extensible(s)
  /\ doc' = [doc EXCEPT ![s] =
       [NoDocument EXCEPT ![key[s]] = Append(Chain(s), Entry(Chain(s), <<"genome", genome>>))]]
  /\ step' = [step EXCEPT ![s] = "appended"]
  /\ UNCHANGED <<may, disk, content, open, key, coord, memo>>

AppendEntry(s, genome) ==
  /\ DriverOf[s] = "crypto" /\ Ready(s)
  /\ Appends(s, Entry(Chain(s), <<"genome", genome>>))
  /\ UNCHANGED memo

\* The last record is in the format of the other driver: KeyError, which ends
\* the build attempt or the evolution loop.
AppendRaises(s) ==
  /\ Ready(s) /\ ~Extensible(s)
  /\ Leaves(s)
  /\ UNCHANGED <<may, disk, content>>

\* _persist: open(path, "w") ...
Truncate(s) ==
  /\ step[s] = "appended"
  /\ disk' = "empty"
  /\ step' = [step EXCEPT ![s] = "truncated"]
  /\ UNCHANGED <<may, content, open, doc, key, coord, memo>>

\* Mutant: annotate_node takes the length of the ledger for the index.
Annotated_Length(s) ==
  LET last == Chain(s)[Len(Chain(s))]
  IN  IF last.payload[1] = "node"
        THEN [coord EXCEPT ![s][last.payload[2]] = Len(Chain(s))] ELSE coord

\* What the caller of append_transaction does with the index it returns.
Annotated(s) ==
  LET last == Chain(s)[Len(Chain(s))]
  IN  IF last.payload[1] = "node"
        THEN [coord EXCEPT ![s][last.payload[2]] = last.t] ELSE coord

Recorded(s) ==
  LET last == Chain(s)[Len(Chain(s))]
  IN  IF last.payload[1] = "sig"
        THEN [memo EXCEPT ![s][last.payload[2]].t = last.t] ELSE memo

\* ... and json.dump.  When another session has written since the truncation,
\* a document shorter than the other one leaves the end of that one behind.
Flush(s) ==
  /\ step[s] = "truncated"
  /\ \/ disk' = "whole" /\ content' = doc[s]
     \/ disk # "empty" /\ disk' = "torn" /\ UNCHANGED content
  /\ step' = [step EXCEPT ![s] = "idle"]
  /\ coord' = Annotated(s)
  /\ memo' = Recorded(s)
  /\ UNCHANGED <<may, open, doc, key>>

\* The process dies, or the block driver's write raises OSError and the
\* attempt is given up; what the file holds stays as it is.
Crash(s) ==
  /\ "faults" \in may /\ s \in open
  /\ Leaves(s)
  /\ UNCHANGED <<may, disk, content>>

\* append_entry logs an OSError and goes on.
SwallowError(s) ==
  /\ "faults" \in may /\ DriverOf[s] = "crypto" /\ step[s] # "idle"
  /\ step' = [step EXCEPT ![s] = "idle"]
  /\ UNCHANGED <<may, disk, content, open, doc, key, coord, memo>>

-----------------------------------------------------------------------------
Genesis == [NoDocument EXCEPT !["mutation_history"] = <<>>]

\* initialize_workspace_context, run as a script or by init_workspace.
InitializeWorkspace ==
  /\ "reseeds" \in may
  /\ "overlap" \in may \/ open = {}
  /\ Readable["mutation_history"] = None
  /\ disk' = "whole" /\ content' = Genesis
  /\ UNCHANGED <<may, open, doc, key, step, coord, memo>>

Init ==
  /\ may \in Conditions
  /\ \/ disk = "absent" /\ content = NoDocument
     \/ disk = "whole" /\ content = Genesis
  /\ open = {}
  /\ doc = [s \in Sessions |-> NoDocument]
  /\ key = [s \in Sessions |-> "ledger"]
  /\ step = [s \in Sessions |-> "idle"]
  /\ coord = [s \in Sessions |-> NoCoord]
  /\ memo = [s \in Sessions |-> NoMemo]

Next ==
  \/ InitializeWorkspace
  \/ \E s \in Sessions :
       \/ OpenBlockLedger(s)
       \/ OpenCryptoLedger(s)
       \/ Close(s)
       \/ \E n \in Nodes : AnnotateNode(s, n)
       \/ \E g \in Signatures : RecordPathIntegral(s, g)
       \/ \E m \in Genomes : AppendEntry(s, m)
       \/ AppendRaises(s)
       \/ Truncate(s)
       \/ Flush(s)
       \/ Crash(s)
       \/ SwallowError(s)

Spec == Init /\ [][Next]_vars

-----------------------------------------------------------------------------
(* Properties *)

\* verify_integrity of the driver that wrote the chain.
Item(b) == [t |-> IF b.by = "block" THEN b.t ELSE None, payload |-> b.payload]

Verifies(chain) ==
  \A i \in DOMAIN chain :
    /\ chain[i].prev = (IF i = 1 THEN <<>> ELSE chain[i - 1].hash)
    /\ chain[i].hash = Hash(chain[i].prev, Item(chain[i]))
    /\ chain[i].by = chain[1].by

DocumentVerifies(d) == \A k \in Keys : d[k] # None => Verifies(d[k])

\* However sessions of both drivers interleave, die and re-read what others
\* left, every history on disk or in memory is an unbroken hash chain written
\* by one driver (verify_integrity, "any tampering with a past record is
\* detectable"): updates may be lost, links never are.
ChainsVerify ==
  /\ DocumentVerifies(content)
  /\ \A s \in open : DocumentVerifies(doc[s])

\* The coordinate a node carries is the index of the block that committed it,
\* in the history of the ledger that annotated it (annotate_node: "T_causal is
\* bound to the freshly committed block").
CoordinatesPointBack ==
  \A s \in open :
    \A n \in Nodes : coord[s][n] # None =>
      /\ coord[s][n] + 1 \in DOMAIN Chain(s)
      /\ Chain(s)[coord[s][n] + 1].payload = <<"node", n>>

\* A block that was once in the file stays in it, at its place ("once
\* committed, a block can never be rewritten"): every complete document the
\* file comes to hold extends the one before, under every key.  This is what
\* a workspace whose processes take turns and do not die can rely on; with
\* overlapping sessions, a death between truncation and write, or a second
\* run of context_init, blocks are lost.
Timeless ==
  [][may = {} => \A k \in Keys : content[k] # None =>
       /\ content'[k] # None
       /\ Len(content[k]) <= Len(content'[k])
       /\ \A i \in DOMAIN content[k] : content'[k][i] = content[k][i]]_vars

=============================================================================
