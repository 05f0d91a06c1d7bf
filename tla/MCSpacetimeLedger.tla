-------------------------- MODULE MCSpacetimeLedger --------------------------
(***************************************************************************)
(* Executions of the sessions of SpacetimeLedger over one file, of the     *)
(* geometry the ledger's coordinates are for (Rigidity), over small nets,  *)
(* and of the query cache that outlives a process on disk (QueryCache).    *)
(* The variable subject says which of them a behaviour is about.           *)
(***************************************************************************)
EXTENDS SpacetimeLedger, QueryCache, Rigidity, TLC

CONSTANTS build, evolve, parse, link, lint, fileA, fileB

Drivers == (build :> "block") @@ (evolve :> "crypto")

\* Processes that take turns and live, and processes to which anything happens.
TurnsOrAnything == {{}, {"overlap", "faults", "reseeds"}}

-----------------------------------------------------------------------------
Agents   == <<"des", "con", "val", "era", "bnd">>
OneValue == [n \in {"des", "con", "val", "era", "bnd"} |-> IF n = "val" THEN "tt" ELSE None]

Unwired == [des |-> <<Open, Open, Open>>, con |-> <<Open, Open, Open>>, val |-> <<Open>>,
            era |-> <<Open>>, bnd |-> <<Open>>]

\* A chain, a cycle of two agents with one port open, and two parts.
ThreeNets ==
  {[Unwired EXCEPT !["des"] = <<"con", "val", "bnd">>, !["con"] = <<"des", "era", Open>>,
                   !["val"] = <<"des">>, !["era"] = <<"con">>, !["bnd"] = <<"des">>],
   [Unwired EXCEPT !["des"] = <<"con", "con", Open>>, !["con"] = <<"des", "des", "bnd">>,
                   !["bnd"] = <<"con">>, !["val"] = <<"era">>, !["era"] = <<"val">>],
   [Unwired EXCEPT !["des"] = <<"val", Open, "bnd">>, !["val"] = <<"des">>, !["bnd"] = <<"des">>,
                   !["con"] = <<"era", "con", "con">>, !["era"] = <<"con">>]}

-----------------------------------------------------------------------------
\* Three computations over two files: one of a source file, one that uses it
\* and reads the other file, one that does not declare its source.
QueryDeps    == (parse :> {fileA}) @@ (link :> {parse, fileB}) @@ (lint :> {fileA})
QuerySources == (parse :> fileA) @@ (link :> Unset) @@ (lint :> fileB)

\* Edits that fall into a computation, or a process that ends.
MidwayOrRestarts == {{"midway"}, {"restarts"}}

-----------------------------------------------------------------------------
VARIABLE subject

ASSUME RigidityAssumption

\* The parts a behaviour is not about are in one state they may start in.
NoFile     == Init /\ may = {} /\ disk = "absent"
NoGeometry == GeometryInit /\ ports = CHOOSE n \in Nets : TRUE
NoCache    == CacheInit /\ cacheMay = {"midway"} /\ file = [f \in Files |-> 0]

MCInit ==
  \/ subject = "file" /\ Init /\ NoGeometry /\ NoCache
  \/ subject = "geometry" /\ NoFile /\ GeometryInit /\ NoCache
  \/ subject = "cache" /\ NoFile /\ NoGeometry /\ CacheInit

MCNext ==
  \/ subject = "file" /\ Next /\ UNCHANGED <<subject, geometry, cacheVars>>
  \/ subject = "geometry" /\ GeometryNext /\ UNCHANGED <<subject, vars, cacheVars>>
  \/ subject = "cache" /\ CacheNext /\ UNCHANGED <<subject, vars, geometry>>

MCSpec == MCInit /\ [][MCNext]_<<subject, vars, geometry, cacheVars>>
=============================================================================
