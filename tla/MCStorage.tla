----------------------------- MODULE MCStorage -----------------------------
(***************************************************************************)
(* Secure storage for model checking: ReeFs, whose file updates are single *)
(* steps, and below it RpcFs and the supplicant, which carry one out by    *)
(* many.  A behaviour exercises one of the two layers.                     *)
(***************************************************************************)
EXTENDS Storage, RpcFs

VARIABLE layer \* the layer of this behaviour

MCContents == {<<2, 2>>, <<1, 2, 1>>}

MCInit == layer \in {"ReeFs", "RpcFs"} /\ Init /\ FsInit

ReeFsStep == layer = "ReeFs" /\ Next /\ UNCHANGED <<layer, fsVars>>

RpcFsStep == layer = "RpcFs" /\ FsNext /\ UNCHANGED <<layer, vars>>

MCNext == ReeFsStep \/ RpcFsStep

MCSpec == MCInit /\ [][MCNext]_<<layer, vars, fsVars>>

\* Ids and contents of objects are compared with each other only.
StorageSymmetry == Permutations(Oid) \cup Permutations(FileId) \cup Permutations(Data) \cup Permutations(Slot)
============================================================================
