------------------------------ MODULE MCValues ------------------------------
(***************************************************************************)
(* What the crate computes from values, on small instances: credential     *)
(* tokens and caches, redaction, catalogs, schemas, addresses and the ABI  *)
(* fingerprint.  The parts share no state: each behaviour follows one of   *)
(* them while the others stand still.                                      *)
(***************************************************************************)
EXTENDS MCCredLayers, MCCredentials, MCRedaction, MCToolCatalog, SchemaMerge, MCAddresses,
        AbiFingerprint

VARIABLE focus   \* the computation this behaviour follows

valueVars == <<focus, layerVars, issueVars, redactVars, catalogVars, schemaVars, addressVars, walkVars>>

Focuses == {"layers", "issue", "redact", "catalog", "schema", "address", "walk"}

RedactStands == raw = <<>> /\ doc = Doc(<<>>) /\ passes = <<>>

\* A chain that neither holds nor hides anything.
IdleChain == [i \in 1..3 |-> MCProvider(Default, Default, {}, FALSE)]
ASSUME StandingChain == IdleChain \in Chains

CatalogStands ==
  /\ chain = IdleChain
  /\ caller = Unset /\ list = <<>> /\ at = 0 /\ shown = <<>>

SchemaStands == schema = Object(<<>>) /\ previous = Object(<<>>) /\ overlay = Object(<<>>)

AddressStands == allow_private = FALSE /\ dns = IpV4(<<1, 1, 1, 1>>) /\ phase = "start" /\ remote = Unknown

\* Two builds whose registration has no fields, both walked.
WalkStands ==
  /\ layout = [b \in Builds |-> [t \in Types |-> [size |-> 1, fields |-> {}, line |-> 1]]]
  /\ seen = [b \in Builds |-> {Root}] /\ todo = [b \in Builds |-> <<>>]
  /\ described = [b \in Builds |-> {describe(Root, layout[b][Root])}]

ValueInit ==
  /\ focus \in Focuses
  /\ LayersInit /\ IssueInit
  /\ IF focus = "redact" THEN RedactInit ELSE RedactStands
  /\ IF focus = "catalog" THEN CatalogInit ELSE CatalogStands
  /\ IF focus = "schema" THEN SchemaInit ELSE SchemaStands
  /\ IF focus = "address" THEN AddressInit ELSE AddressStands
  /\ IF focus = "walk" THEN WalkInit ELSE WalkStands

ValueNext ==
  \/ /\ focus = "layers" /\ LayersNext
     /\ UNCHANGED <<focus, issueVars, redactVars, catalogVars, schemaVars, addressVars, walkVars>>
  \/ /\ focus = "issue" /\ IssueNext
     /\ UNCHANGED <<focus, layerVars, redactVars, catalogVars, schemaVars, addressVars, walkVars>>
  \/ /\ focus = "redact" /\ RedactNext
     /\ UNCHANGED <<focus, layerVars, issueVars, catalogVars, schemaVars, addressVars, walkVars>>
  \/ /\ focus = "catalog" /\ CatalogNext
     /\ UNCHANGED <<focus, layerVars, issueVars, redactVars, schemaVars, addressVars, walkVars>>
  \/ /\ focus = "schema" /\ SchemaNext
     /\ UNCHANGED <<focus, layerVars, issueVars, redactVars, catalogVars, addressVars, walkVars>>
  \/ /\ focus = "address" /\ AddressNext
     /\ UNCHANGED <<focus, layerVars, issueVars, redactVars, catalogVars, schemaVars, walkVars>>
  \/ /\ focus = "walk" /\ WalkNext
     /\ UNCHANGED <<focus, layerVars, issueVars, redactVars, catalogVars, schemaVars, addressVars>>

ValueSpec == ValueInit /\ [][ValueNext]_valueVars

\* Every component's state is of its type.
ValuesTypeOK == LayersTypeOK /\ IssueTypeOK /\ CatalogTypeOK /\ SchemaTypeOK /\ WalkTypeOK

=============================================================================
