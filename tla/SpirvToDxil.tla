----------------------------- MODULE SpirvToDxil -----------------------------
(***************************************************************************)
(* Concurrent conversions: convert() of src/spirv_to_dxil.zig calling      *)
(* spirv_to_dxil() (mesa/src/microsoft/spirv_to_dxil/spirv_to_dxil.c)      *)
(* calling nir_to_dxil() (mesa/src/microsoft/compiler/nir_to_dxil.c), on   *)
(* top of the shared type cache.                                           *)
(*                                                                         *)
(* What a conversion computes is left out; what it allocates, on which     *)
(* path it fails and what it releases in which order is kept.  A resource  *)
(* is `owned' while some frame of the call can still release it and `lost' *)
(* when the frame that held the only pointer has returned without doing    *)
(* so.  The resources of a conversion are private to its thread, so the    *)
(* steps between two uses of the shared cache may be taken together.       *)
(***************************************************************************)
EXTENDS GlslTypeCache

VARIABLES
    pc,         \* where each conversion is
    stage,      \* its shader stage argument
    owned,      \* [Threads -> SUBSET Resources]
    lost        \* [Threads -> SUBSET Resources], of the latest call

callVars == <<pc, stage, owned, lost>>
vars == <<cacheVars, callVars>>

Stages == {"none", "kernel", "tess", "other"}

Resources == {"words",     \* the aligned copy of the input (zig)
              "spec",      \* vtn_alloc_specialization
              "nir",       \* the nir_shader
              "ctx",       \* the ntd_context
              "ralloc",    \* its ralloc context with the whole dxil_module
              "modbuf",    \* the bitcode buffer of the module
              "parts",     \* dxil_container.parts
              "blob",      \* the container written so far
              "binary",    \* out_dxil->binary.buffer
              "slice"}     \* what convert() returns

(* The parts of the container in the order nir_to_dxil adds them.          *)
PartPCs == {"SFI0", "ISG1", "OSG1", "PSG1", "PSV0", "DXIL"}

PCs == {"idle", "call", "specialize", "parse", "passes", "sysvalues", "emit",
        "write", "out_ok", "out_fail", "ntd_failed", "deliver", "unref_ok",
        "unref_fail", "returned_true", "returned_false"} \union PartPCs

Init == /\ CacheInit
        /\ pc = [t \in Threads |-> "idle"]
        /\ stage = [t \in Threads |-> "none"]
        /\ owned = [t \in Threads |-> {}]
        /\ lost = [t \in Threads |-> {}]

Goto(t, l) == pc' = [pc EXCEPT ![t] = l]
Owns(t, new, freed) == owned' = [owned EXCEPT ![t] = (@ \union new) \ freed]
(* The frame returns; what it still owned among S can no longer be freed.  *)
Loses(t, S) == lost' = [lost EXCEPT ![t] = @ \union (owned[t] \intersect S)]
-----------------------------------------------------------------------------
(* convert(): a wrong size or a failed alignedAlloc returns an error and   *)
(* changes nothing; otherwise the words are copied and the library called. *)
convert(t, s) == /\ pc[t] = "idle"
                 /\ owned[t] = {}
                 /\ stage' = [stage EXCEPT ![t] = s]
                 /\ Owns(t, {"words"}, {})
                 /\ lost' = [lost EXCEPT ![t] = {}]
                 /\ Goto(t, "call")
                 /\ UNCHANGED cacheVars

(* spirv_to_dxil(): DXIL_SPIRV_SHADER_NONE and _KERNEL are refused before  *)
(* the cache is referenced.                                                *)
StageRefused(s) == s \in {"none", "kernel"}

RefuseStage(t) == /\ pc[t] = "call"
                  /\ StageRefused(stage[t])
                  /\ Goto(t, "returned_false")
                  /\ UNCHANGED <<cacheVars, stage, owned, lost>>

RefTypes(t) == /\ pc[t] = "call"
               /\ ~ StageRefused(stage[t])
               /\ glsl_type_singleton_init_or_ref(t)
               /\ Goto(t, "specialize")
               /\ UNCHANGED <<stage, owned, lost>>

(* vtn_alloc_specialization, when the caller passes specializations        *)
Specialize(t) == /\ pc[t] = "specialize"
                 /\ \E S \in SUBSET {"spec"} : Owns(t, S, {})
                 /\ Goto(t, "parse")
                 /\ UNCHANGED <<cacheVars, stage, lost>>

(* spirv_to_nir and the passes ask for types as they go.                   *)
UseTypes(t) == /\ pc[t] \in {"parse", "passes", "sysvalues"}
               /\ GetType(t)
               /\ UNCHANGED callVars

ParseSucceeds(t) == /\ pc[t] = "parse"
                    /\ Owns(t, {"nir"}, {"spec"})
                    /\ Goto(t, "passes")
                    /\ UNCHANGED <<cacheVars, stage, lost>>

(* Mutant: the error path returns without glsl_type_singleton_decref.      *)
ParseFailsKeepsRef(t) == /\ pc[t] = "parse"
                         /\ DropTypes(t)
                         /\ Owns(t, {}, {"spec"})
                         /\ Goto(t, "returned_false")
                         /\ UNCHANGED <<stage, lost>>

(* A SPIR-V error jumps out of spirv_to_nir, which frees what it built.    *)
ParseFails(t) == /\ pc[t] = "parse"
                 /\ DropTypes(t)
                 /\ Owns(t, {}, {"spec"})
                 /\ Goto(t, "unref_fail")
                 /\ UNCHANGED <<stage, lost>>
-----------------------------------------------------------------------------
(* nir_to_dxil(): a shader model or validator version out of range, or no  *)
(* memory for the context, returns before anything is allocated.           *)
RefuseVersion(t) == /\ pc[t] = "passes"
                    /\ Goto(t, "ntd_failed")
                    /\ UNCHANGED <<cacheVars, stage, owned, lost>>

StartContext(t) == /\ pc[t] = "passes"
                   /\ \/ /\ Owns(t, {"ctx", "ralloc"}, {})
                         /\ Goto(t, "sysvalues")
                      \/ /\ Owns(t, {"ctx"}, {})          \* no ralloc_ctx
                         /\ Goto(t, "out_fail")
                   /\ UNCHANGED <<cacheVars, stage, lost>>

AllocateSysvalues(t) == /\ pc[t] = "sysvalues"
                        /\ Goto(t, "emit")
                        /\ UNCHANGED <<cacheVars, stage, owned, lost>>

(* "if (!allocate_sysvalues(ctx)) return false;" skips the label out.      *)
SysvaluesFail(t) == /\ pc[t] = "sysvalues"
                    /\ Loses(t, {"ctx", "ralloc"})
                    /\ Owns(t, {}, {"ctx", "ralloc"})
                    /\ Goto(t, "ntd_failed")
                    /\ UNCHANGED <<cacheVars, stage>>

EmitModule(t) == /\ pc[t] = "emit"
                 /\ Owns(t, {"modbuf"}, {})
                 /\ Goto(t, "SFI0")
                 /\ UNCHANGED <<cacheVars, stage, lost>>

EmitModuleFails(t) == /\ pc[t] = "emit"
                      /\ \E S \in SUBSET {"modbuf"} : Owns(t, S, {})
                      /\ Goto(t, "out_fail")
                      /\ UNCHANGED <<cacheVars, stage, lost>>

(* The signature of patch constants only for hull and domain shaders.      *)
NextPart(p, s) == CASE p = "SFI0" -> "ISG1"
                    [] p = "ISG1" -> "OSG1"
                    [] p = "OSG1" -> IF s = "tess" THEN "PSG1" ELSE "PSV0"
                    [] p = "PSG1" -> "PSV0"
                    [] p = "PSV0" -> "DXIL"
                    [] p = "DXIL" -> "write"

AddPart(t) == /\ pc[t] \in PartPCs
              /\ Owns(t, {"parts"}, {})
              /\ Goto(t, NextPart(pc[t], stage[t]))
              /\ UNCHANGED <<cacheVars, stage, lost>>

(* A part that cannot be added may have grown the parts blob first.        *)
AddPartFails(t) == /\ pc[t] \in PartPCs
                   /\ \E S \in SUBSET {"parts"} : Owns(t, S, {})
                   /\ Goto(t, "out_fail")
                   /\ UNCHANGED <<cacheVars, stage, lost>>

(* dxil_container_write, then dxil_container_finish                        *)
WriteContainer(t) == /\ pc[t] = "write"
                     /\ Owns(t, {"blob"}, {"parts"})
                     /\ Goto(t, "out_ok")
                     /\ UNCHANGED <<cacheVars, stage, lost>>

WriteContainerFails(t) == /\ pc[t] = "write"
                          /\ \E S \in SUBSET {"blob"} : Owns(t, S, {})
                          /\ Goto(t, "out_fail")
                          /\ UNCHANGED <<cacheVars, stage, lost>>

(* Mutant: dxil_module_release is forgotten.                               *)
ReleasedAtOutButModule == {"ralloc", "ctx"}

(* out: dxil_module_release, ralloc_free, free, return retval.  The        *)
(* container is a local variable that only the success path finishes.      *)
ReleasedAtOut == {"modbuf", "ralloc", "ctx"}

Out(t) == /\ pc[t] \in {"out_ok", "out_fail"}
          /\ Loses(t, {"parts"})
          /\ Owns(t, {}, ReleasedAtOut \union {"parts"})
          /\ Goto(t, IF pc[t] = "out_ok" THEN "deliver" ELSE "ntd_failed")
          /\ UNCHANGED <<cacheVars, stage>>
-----------------------------------------------------------------------------
(* nir_to_dxil returned false: the blob if any and the IR are released.    *)
ReleasedOnFailure == {"blob", "nir"}

(* Mutant: glsl_type_singleton_decref comes before ralloc_free(nir).       *)
CleanUpTooLate(t) == /\ pc[t] = "ntd_failed"
                     /\ Owns(t, {}, ReleasedOnFailure)
                     /\ Goto(t, "unref_fail")
                     /\ UNCHANGED <<cacheVars, stage, lost>>

CleanUpFailure(t) == /\ pc[t] = "ntd_failed"
                     /\ Owns(t, {}, ReleasedOnFailure)
                     /\ DropTypes(t)
                     /\ Goto(t, "unref_fail")
                     /\ UNCHANGED <<stage, lost>>

(* ralloc_free(nir); blob_finish_get_buffer hands the blob over, unless    *)
(* the realloc that trims it fails and returns NULL.                       *)
Deliver(t) == /\ pc[t] = "deliver"
              /\ DropTypes(t)
              /\ \/ Owns(t, {"binary"}, {"nir", "blob"}) /\ UNCHANGED lost
                 \/ Owns(t, {}, {"nir", "blob"}) /\ Loses(t, {"blob"})
              /\ Goto(t, "unref_ok")
              /\ UNCHANGED stage

UnrefTypes(t) == /\ pc[t] \in {"unref_ok", "unref_fail"}
                 /\ glsl_type_singleton_decref(t)
                 /\ Goto(t, IF pc[t] = "unref_ok" THEN "returned_true"
                                                  ELSE "returned_false")
                 /\ UNCHANGED <<stage, owned, lost>>

(* convert() again: the binary, if there is one, is copied (which may      *)
(* fail), and the defers free it and the words.                            *)
ReturnError(t) == /\ \/ pc[t] = "returned_false"
                     \/ pc[t] = "returned_true"    \* no buffer, or dupe fails
                  /\ Owns(t, {}, {"words", "binary"})
                  /\ Goto(t, "idle")
                  /\ UNCHANGED <<cacheVars, stage, lost>>

ReturnSlice(t) == /\ pc[t] = "returned_true"
                  /\ "binary" \in owned[t]
                  /\ Owns(t, {"slice"}, {"words", "binary"})
                  /\ Goto(t, "idle")
                  /\ UNCHANGED <<cacheVars, stage, lost>>

(* The caller frees the slice before it converts again.                    *)
CallerFrees(t) == /\ pc[t] = "idle"
                  /\ "slice" \in owned[t]
                  /\ Owns(t, {}, {"slice"})
                  /\ UNCHANGED <<cacheVars, pc, stage, lost>>

Call(t) == \E s \in Stages : convert(t, s)

Proceed(t) == \/ RefuseStage(t) \/ RefTypes(t) \/ Specialize(t)
              \/ ParseSucceeds(t) \/ ParseFails(t)
              \/ RefuseVersion(t) \/ StartContext(t)
              \/ AllocateSysvalues(t) \/ SysvaluesFail(t)
              \/ EmitModule(t) \/ EmitModuleFails(t)
              \/ AddPart(t) \/ AddPartFails(t)
              \/ WriteContainer(t) \/ WriteContainerFails(t) \/ Out(t)
              \/ CleanUpFailure(t) \/ Deliver(t) \/ UnrefTypes(t)
              \/ ReturnError(t) \/ ReturnSlice(t)

Next == \E t \in Threads : Call(t) \/ UseTypes(t) \/ Proceed(t) \/ CallerFrees(t)

Spec == Init /\ [][Next]_vars

(* A conversion in progress keeps running: it waits for nothing but the    *)
(* mutex of the cache, and it asks for finitely many types.                *)
FairSpec == Spec /\ \A t \in Threads : WF_vars(Proceed(t))
-----------------------------------------------------------------------------
TypeOK == /\ CacheTypeOK
          /\ pc \in [Threads -> PCs]
          /\ stage \in [Threads -> Stages]
          /\ owned \in [Threads -> SUBSET Resources]
          /\ lost \in [Threads -> SUBSET Resources]

(* Conversions use the cache as it demands: types are only obtained under  *)
(* a reference, and the reference is dropped once, after the IR is gone.   *)
ObeysTheCache == CacheSpec

(* Where a conversion holds a reference to the cache: from init_or_ref to  *)
(* the decref that precedes every return after it.                         *)
BeforeRef == {"idle", "call", "returned_true", "returned_false"}

(* Every way out of spirv_to_dxil gives back the reference it took, and    *)
(* the way out before the reference gives back none.                       *)
ReferencesBalance == \A t \in Threads : t \in refs <=> pc[t] \notin BeforeRef

(* "so the caller only frees the returned slice": nothing but the slice is *)
(* still owned when convert() has returned.                                *)
OnlyTheSliceRemains ==
    \A t \in Threads : pc[t] = "idle" => owned[t] \subseteq {"slice"}

(* The IR that points to types exists between the parser and the release.  *)
OnlyTheIRHolds ==
    \A t \in Threads :
       pc[t] \in BeforeRef \union {"specialize", "unref_ok", "unref_fail"}
          => held[t] = {}

(* The part of the call in which each resource can be owned.               *)
InsideContext == {"sysvalues", "emit", "write", "out_ok", "out_fail"}
                    \union PartPCs

OwnedInItsPlace ==
    \A t \in Threads :
       /\ "words" \in owned[t] => pc[t] # "idle"
       /\ "spec" \in owned[t] => pc[t] = "parse"
       /\ "nir" \in owned[t] => pc[t] \in InsideContext \union
                                   {"passes", "ntd_failed", "deliver"}
       /\ "ctx" \in owned[t] => pc[t] \in InsideContext
       /\ "ralloc" \in owned[t] => pc[t] \in InsideContext
       /\ "modbuf" \in owned[t] => pc[t] \in InsideContext \ {"sysvalues"}
       /\ "parts" \in owned[t] => pc[t] \in InsideContext \ {"sysvalues"}
       /\ "blob" \in owned[t] => pc[t] \in {"out_ok", "out_fail",
                                           "ntd_failed", "deliver"}
       /\ "binary" \in owned[t] => pc[t] \in {"unref_ok", "returned_true"}
       /\ "slice" \in owned[t] => pc[t] = "idle"

(* What is lost is lost inside nir_to_dxil or at the hand-over of the      *)
(* blob: the words, the IR, the specializations, the bitcode buffer, the   *)
(* binary and the slice are released on every path.                        *)
MayBeLost == {"ctx", "ralloc", "parts", "blob"}

LossesAreBounded == \A t \in Threads : lost[t] \subseteq MayBeLost

(* The inductive invariant, with that of the cache.                        *)
IInv == /\ CacheInv
        /\ TypeOK
        /\ ReferencesBalance
        /\ OnlyTheIRHolds
        /\ OwnedInItsPlace
        /\ LossesAreBounded

(* The memory of a conversion is all released, whichever way it ends.      *)
NothingIsLost == \A t \in Threads : lost[t] = {}

(* When no conversion starts any more, those in progress return and the    *)
(* last one releases the whole cache.                                      *)
CacheIsReleased ==
    <>[][\A t \in Threads : ~ Call(t)]_vars
       => <>[](users = 0 /\ \A a \in Addr : ~ Live(a))
=============================================================================
