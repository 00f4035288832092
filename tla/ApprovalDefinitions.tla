------------------------ MODULE ApprovalDefinitions ------------------------
(***************************************************************************)
(* The approval flows of one (tenant, biz_type): versions per amount band, *)
(* administrators who save and retire them, and submissions that seed the  *)
(* default flows of a company that has none (defaults.go).                 *)
(*                                                                         *)
(* SaveDefinition reads its version number outside its transaction, so a   *)
(* save is two steps. The seeding transaction runs at READ COMMITTED and   *)
(* sees what others commit between its statements: it is one step per      *)
(* band, what it writes stays in pending[s] until it commits, and a row    *)
(* with the key of an uncommitted one cannot be inserted meanwhile.        *)
(***************************************************************************)
EXTENDS Integers

CONSTANTS
  Bands,         \* the min_amount values in use
  DefaultNodes,  \* DefaultNodes[b]: the node seqs of the default flow of b
  Saved,         \* the sets of node seqs administrators save
  MaxVersion,    \* bound on the versions of a band
  Savers,        \* concurrent SaveDefinition calls
  Seeders        \* concurrent submissions that found no active flow

ASSUME BandAssumption ==
  /\ Bands \subseteq Nat /\ 0 \in Bands
  /\ DOMAIN DefaultNodes \subseteq Bands
  /\ MaxVersion \in Nat \ {0}
ASSUME NodesAssumption ==
  /\ \A b \in DOMAIN DefaultNodes : DefaultNodes[b] \subseteq Nat \ {0}
  /\ \A N \in Saved : N \subseteq Nat \ {0}

Base == 0
Versions == 1..MaxVersion
Rows == Bands \X Versions          \* UNIQUE (min_amount, version)

VARIABLES
  flowStatus,    \* flowStatus[row]: "absent", "ACTIVE" or "INACTIVE"
  nodes,         \* nodes[row]: the committed node seqs of the row
  saving,        \* saving[a]: the row administrator a is about to insert
  seeding,       \* the seeders whose transaction is open
  pending        \* pending[s]: the bands s has dealt with, the rows and nodes
                 \* it inserted and has not committed

definitionVars == <<flowStatus, nodes, saving, seeding, pending>>

None == <<>>
Nothing == [bands |-> {}, rows |-> {}, nodes |-> [row \in Rows |-> {}]]

DefinitionsInit ==
  /\ flowStatus = [row \in Rows |-> "absent"]
  /\ nodes = [row \in Rows |-> {}]
  /\ saving = [a \in Savers |-> None]
  /\ seeding = {}
  /\ pending = [s \in Seeders |-> Nothing]

Existing == {row \in Rows : flowStatus[row] # "absent"}
Uncommitted == UNION {pending[s].rows : s \in Seeders}

-----------------------------------------------------------------------------
(* NextDefinitionVersion: one more than the highest committed version.     *)
IsNextVersion(b, n) ==
  /\ n # 1 => <<b, n - 1>> \in Existing
  /\ \A v \in Versions : <<b, v>> \in Existing => v < n

ReadVersion(a, b, n) ==
  /\ saving[a] = None
  /\ IsNextVersion(b, n)
  /\ saving' = [saving EXCEPT ![a] = <<b, n>>]
  /\ UNCHANGED <<flowStatus, nodes, seeding, pending>>

(* Mutant: DeactivateOtherDefinitions is left out.                         *)
SaveBeside(a, N) ==
  LET row == saving[a] IN
  /\ row # None
  /\ row \notin Existing \union Uncommitted
  /\ flowStatus' = [flowStatus EXCEPT ![row] = "ACTIVE"]
  /\ nodes' = [nodes EXCEPT ![row] = N]
  /\ saving' = [saving EXCEPT ![a] = None]
  /\ UNCHANGED <<seeding, pending>>

(* CreateDefinition, DeactivateOtherDefinitions, CreateNode; one commit.   *)
Save(a, N) ==
  LET row == saving[a] IN
  /\ row # None
  /\ row \notin Existing \union Uncommitted
  /\ flowStatus' = [r \in Rows |->
       CASE r = row -> "ACTIVE"
         [] r # row /\ r[1] = row[1] /\ flowStatus[r] = "ACTIVE" -> "INACTIVE"
         [] OTHER -> flowStatus[r]]
  /\ nodes' = [nodes EXCEPT ![row] = N]
  /\ saving' = [saving EXCEPT ![a] = None]
  /\ UNCHANGED <<seeding, pending>>

(* Somebody else's row has the version: the unique key refuses this one.   *)
SaveFails(a) ==
  /\ saving[a] # None /\ saving[a] \in Existing
  /\ saving' = [saving EXCEPT ![a] = None]
  /\ UNCHANGED <<flowStatus, nodes, seeding, pending>>

(* Mutant: the base band may be retired like the others.                   *)
DeleteAnyBand(b) ==
  /\ \E v \in Versions : flowStatus[<<b, v>>] = "ACTIVE"
  /\ flowStatus' = [r \in Rows |->
       IF r[1] = b /\ flowStatus[r] = "ACTIVE" THEN "INACTIVE" ELSE flowStatus[r]]
  /\ UNCHANGED <<nodes, saving, seeding, pending>>

DeleteBand(b) ==
  /\ b # Base
  /\ \E v \in Versions : flowStatus[<<b, v>>] = "ACTIVE"
  /\ flowStatus' = [r \in Rows |->
       IF r[1] = b /\ flowStatus[r] = "ACTIVE" THEN "INACTIVE" ELSE flowStatus[r]]
  /\ UNCHANGED <<nodes, saving, seeding, pending>>

-----------------------------------------------------------------------------
(* Submit found no flow; CountDefinitionsFor counts those of any status.   *)
CountNone(s) ==
  /\ s \notin seeding
  /\ Existing = {}
  /\ seeding' = seeding \union {s}
  /\ UNCHANGED <<flowStatus, nodes, saving, pending>>

(* Mutant: ON CONFLICT DO UPDATE brings the version back into force.       *)
SeedBandAgain(s, b) ==
  LET row == <<b, 1>>
  IN /\ s \in seeding /\ b \in DOMAIN DefaultNodes \ pending[s].bands
     /\ \A c \in DOMAIN DefaultNodes : c < b => c \in pending[s].bands
     /\ \A other \in Seeders \ {s} : row \notin pending[other].rows
     /\ pending' = [pending EXCEPT ![s] =
          [bands |-> @.bands \union {b},
           rows |-> @.rows \union {row},
           nodes |-> [@.nodes EXCEPT ![row] = DefaultNodes[b] \ nodes[row]]]]
     /\ UNCHANGED <<flowStatus, nodes, saving, seeding>>

(* SeedDefinition ON CONFLICT DO NOTHING, GetDefinitionBand, then SeedNode *)
(* ON CONFLICT DO NOTHING for every node, on whichever row was found.      *)
SeedBand(s, b) ==
  LET row == <<b, 1>>
      insert == row \notin Existing
  IN /\ s \in seeding /\ b \in DOMAIN DefaultNodes \ pending[s].bands
     /\ \A c \in DOMAIN DefaultNodes : c < b => c \in pending[s].bands
     /\ \A other \in Seeders \ {s} : row \notin pending[other].rows
     /\ pending' = [pending EXCEPT ![s] =
          [bands |-> @.bands \union {b},
           rows |-> IF insert THEN @.rows \union {row} ELSE @.rows,
           nodes |-> [@.nodes EXCEPT ![row] = DefaultNodes[b] \ nodes[row]]]]
     /\ UNCHANGED <<flowStatus, nodes, saving, seeding>>

SeedCommit(s) ==
  /\ s \in seeding /\ pending[s].bands = DOMAIN DefaultNodes
  /\ flowStatus' = [r \in Rows |-> IF r \in pending[s].rows THEN "ACTIVE" ELSE flowStatus[r]]
  /\ nodes' = [r \in Rows |-> nodes[r] \union pending[s].nodes[r]]
  /\ seeding' = seeding \ {s}
  /\ pending' = [pending EXCEPT ![s] = Nothing]
  /\ UNCHANGED saving

SeedRollback(s) ==
  /\ s \in seeding
  /\ seeding' = seeding \ {s}
  /\ pending' = [pending EXCEPT ![s] = Nothing]
  /\ UNCHANGED <<flowStatus, nodes, saving>>

DefinitionsNext ==
  \/ \E a \in Savers, b \in Bands, n \in Versions : ReadVersion(a, b, n)
  \/ \E a \in Savers, N \in Saved : Save(a, N)
  \/ \E a \in Savers : SaveFails(a)
  \/ \E b \in Bands : DeleteBand(b)
  \/ \E s \in Seeders : CountNone(s) \/ SeedCommit(s) \/ SeedRollback(s)
  \/ \E s \in Seeders, b \in Bands : SeedBand(s, b)

DefinitionsSpec == DefinitionsInit /\ [][DefinitionsNext]_definitionVars

-----------------------------------------------------------------------------
PendingType == [bands : SUBSET Bands, rows : SUBSET Rows, nodes : [Rows -> SUBSET (Nat \ {0})]]

DefinitionsTypeOK ==
  /\ flowStatus \in [Rows -> {"absent", "ACTIVE", "INACTIVE"}]
  /\ nodes \in [Rows -> SUBSET (Nat \ {0})]
  /\ saving \in [Savers -> Rows \union {None}]
  /\ seeding \subseteq Seeders
  /\ pending \in [Seeders -> PendingType]

(* Two administrators saving a band at once, or one saving while a first   *)
(* submission seeds it, leave one version in force: which flow a document  *)
(* gets never depends on who asks (approval.sql:169-170).                  *)
OneActivePerBand ==
  \A b \in Bands : \A v, w \in Versions :
    flowStatus[<<b, v>>] = "ACTIVE" /\ flowStatus[<<b, w>>] = "ACTIVE" => v = w

(* Once the base band exists it stays in force, whoever saves, retires or  *)
(* seeds: an amount of zero has something to match (definition.go:145-147). *)
BaseBandStays ==
  (\E v \in Versions : <<Base, v>> \in Existing) =>
     \E v \in Versions : flowStatus[<<Base, v>>] = "ACTIVE"

(* Seeding never brings back a flow somebody retired (defaults.go).        *)
RetiredStaysRetired ==
  [][\A row \in Rows : flowStatus[row] = "INACTIVE" => flowStatus'[row] = "INACTIVE"]_definitionVars

-----------------------------------------------------------------------------
(* What comments say and the code does not keep.                           *)

(* "A new version leaves them alone" (definition.go:53-58): the steps of a *)
(* version that instances may be halfway through do not change.            *)
VersionsStayAsSaved ==
  [][\A row \in Existing : nodes'[row] = nodes[row]]_definitionVars
=============================================================================
