-------------------------- MODULE DefinitionStore ---------------------------
(***************************************************************************)
(* DefinitionStore (core/definition_store.py) as the entrypoint builds it: *)
(* without persistence, so a save is one step and a restart of the process *)
(* loses it.  One workflow name; a definition is known by its version, and *)
(* by the provider it names, which the triggers need: none, one that a run *)
(* can have (ProviderConfig), or one that only the executors know (azure,  *)
(* bedrock), which a definition may name all the same.                     *)
(***************************************************************************)
EXTENDS Naturals, Sequences

CONSTANT MaxVersions    \* bound: definitions saved

VARIABLE versions       \* _versions[name]; the last one is _definitions[name]

Provider == {"none", "config", "other"}
Definition == [provider : Provider, active : BOOLEAN]

DefsTypeOK == versions \in Seq(Definition) /\ Len(versions) <= MaxVersions

DefsInit == versions = <<>>

\* save(): a new version, always active.
SaveDefinition(provider) ==
    /\ Len(versions) < MaxVersions
    /\ versions' = Append(versions, [provider |-> provider, active |-> TRUE])

\* get(): the latest version, unless it was deleted; 0 for none.
GetDefinition ==
    IF versions # <<>> /\ versions[Len(versions)].active THEN Len(versions) ELSE 0

\* delete(): a soft delete of the latest version.
DeleteDefinition ==
    /\ GetDefinition # 0
    /\ versions' = [versions EXCEPT ![Len(versions)].active = FALSE]

DefsNext == DeleteDefinition \/ \E provider \in Provider : SaveDefinition(provider)
=============================================================================
