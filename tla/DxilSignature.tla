---------------------------- MODULE DxilSignature ----------------------------
(***************************************************************************)
(* Where the inputs and outputs of a shader live.  dxil_spirv_nir_passes   *)
(* orders the interface variables of a stage and numbers them              *)
(* (driver_location), dxil_spirv_nir_link does it again for two stages     *)
(* that follow each other, and preprocess_signatures                       *)
(* (mesa/src/microsoft/compiler/dxil_signature.c) gives each variable a    *)
(* register, a record of the signature, an element of the pipeline state   *)
(* validation with its strings and semantic indices, and sizes the tables  *)
(* of dependencies between inputs and outputs.                             *)
(*                                                                         *)
(* A variable is its location and component (frac), the vec4 slots and the *)
(* component slots of its type without the per-vertex array, its flags,    *)
(* and for an input `feeds': the outputs that are all it is needed for     *)
(* ({}: it is needed anyway).  Locations are the values of                 *)
(* gl_varying_slot, gl_frag_result or vertex attributes.  Interpolation,   *)
(* component types and usage masks are left out.                           *)
(***************************************************************************)
EXTENDS Integers, Sequences, FiniteSets, SequencesExt

CONSTANT Pipelines       \* sequences of stages that are converted together

ASSUME PipelinesAreSequences == \A p \in Pipelines : p \in Seq(ToSet(p))

VARIABLES
    stages,      \* the nir_shaders of the pipeline
    mods,        \* the signature parts of their dxil_modules
    at,          \* the stage in hand
    pc           \* what is done next

sigVars == <<stages, mods, at>>

VARYING_SLOT_POS == 0
VARYING_SLOT_PSIZ == 12
VARYING_SLOT_CLIP_DIST0 == 17
VARYING_SLOT_CLIP_DIST1 == 18
VARYING_SLOT_PRIMITIVE_ID == 21
VARYING_SLOT_LAYER == 22
VARYING_SLOT_VIEWPORT == 23
VARYING_SLOT_FACE == 24
VARYING_SLOT_TESS_LEVEL_OUTER == 26
VARYING_SLOT_TESS_LEVEL_INNER == 27
VARYING_SLOT_VIEW_INDEX == 30
VARYING_SLOT_VAR0 == 32
VARYING_SLOT_PATCH0 == 64

FRAG_RESULT_DEPTH == 0
FRAG_RESULT_STENCIL == 1
FRAG_RESULT_SAMPLE_MASK == 3
FRAG_RESULT_DATA0 == 4

TessLevels == {VARYING_SLOT_TESS_LEVEL_OUTER, VARYING_SLOT_TESS_LEVEL_INNER}

Tess(kind) == kind \in {"hull", "domain"}

Locations(vs) == {vs[i].loc : i \in DOMAIN vs}

(* The slots nir_shader_gather_info marks for a variable, and the ones     *)
(* glsl_varying_count makes the link passes look at.  It does not count    *)
(* the members of an innermost array, so that a scalar, a vector, a        *)
(* compact float[n] and a per-vertex array of vectors all count 1; arrays  *)
(* of arrays and structs, which count more, are left out.                  *)
Gathered(v) == IF v.compact THEN {v.loc} ELSE v.loc .. v.loc + v.slots - 1
VaryingRange(v) == {v.loc}
-----------------------------------------------------------------------------
(* variable_location_cmp: stream, driver_location, location,               *)
(* location_frac, index, then full vectors before partial ones             *)
CmpKey(v) == <<v.stream, v.dl,
               IF v.loc >= VARYING_SLOT_PATCH0 THEN v.loc - VARYING_SLOT_PATCH0
                                               ELSE v.loc,
               v.frac, v.index, - v.comps>>

variable_location_cmp(a, b) ==
    \E i \in 1..6 : /\ CmpKey(a)[i] < CmpKey(b)[i]
                    /\ \A j \in 1..i-1 : CmpKey(a)[j] = CmpKey(b)[j]

nir_sort_variables(vs) == SortSeq(vs, variable_location_cmp)

(* Mutant: what the other stage does with a location makes no difference.  *)
SysvalueTypeAlone(v, other_stage) ==
    IF v.loc >= VARYING_SLOT_VAR0 THEN 0 ELSE 3

(* enum dxil_sysvalue_type; no mask of components is given                 *)
nir_var_to_dxil_sysvalue_type(v, other_stage) ==
    CASE v.loc = VARYING_SLOT_FACE -> 4
      [] v.loc \in {VARYING_SLOT_POS, VARYING_SLOT_PRIMITIVE_ID,
                    VARYING_SLOT_CLIP_DIST0, VARYING_SLOT_CLIP_DIST1,
                    VARYING_SLOT_PSIZ, VARYING_SLOT_VIEWPORT,
                    VARYING_SLOT_LAYER, VARYING_SLOT_VIEW_INDEX} \union TessLevels
            -> IF v.loc \in other_stage THEN 1 ELSE 3
      [] OTHER -> IF v.loc < VARYING_SLOT_PATCH0 /\ v.loc \notin other_stage
                  THEN 2 ELSE 0

SlotsBefore(vs, i) ==
    FoldLeft(LAMBDA n, j : IF vs[j].patch = vs[i].patch THEN n + vs[j].slots
                                                        ELSE n,
             0, [j \in 1..i-1 |-> j])

dxil_reassign_driver_locations(vs, other_stage) ==
    LET sorted == nir_sort_variables(
                     [i \in DOMAIN vs |->
                        [vs[i] EXCEPT !.dl = nir_var_to_dxil_sysvalue_type(
                                                vs[i], other_stage)]])
    IN  [i \in DOMAIN sorted |->
           [sorted[i] EXCEPT !.dl = SlotsBefore(sorted, i)]]

PsOutputOrder(loc) == CASE loc = FRAG_RESULT_DEPTH -> 1
                        [] loc = FRAG_RESULT_STENCIL -> 2
                        [] loc = FRAG_RESULT_SAMPLE_MASK -> 3
                        [] OTHER -> 0

WholeBefore(vs, i) == Cardinality({j \in 1..i-1 : vs[j].frac = 0})

dxil_sort_ps_outputs(vs) ==
    LET sorted == nir_sort_variables(
                     [i \in DOMAIN vs |->
                        [vs[i] EXCEPT !.dl = PsOutputOrder(vs[i].loc)]])
    IN  [i \in DOMAIN sorted |->
           [sorted[i] EXCEPT !.dl = IF sorted[i].frac # 0
                                    THEN WholeBefore(sorted, i) - 1
                                    ELSE WholeBefore(sorted, i)]]

dxil_sort_by_driver_location(vs) == nir_sort_variables(vs)

(* The end of dxil_spirv_nir_passes: a first numbering, then gather_info   *)
dxil_spirv_nir_passes(s) ==
    [s EXCEPT
       !.out = IF s.kind = "pixel" THEN dxil_sort_ps_outputs(@)
               ELSE dxil_reassign_driver_locations(@, {}),
       !.in = IF s.kind = "vertex"
              THEN dxil_sort_by_driver_location(
                     [i \in DOMAIN @ |-> [@[i] EXCEPT !.dl = s.in[i].loc]])
              ELSE dxil_reassign_driver_locations(@, {}),
       !.inputs_read = UNION {Gathered(s.in[i]) : i \in DOMAIN s.in},
       !.outputs_written = UNION {Gathered(s.out[i]) : i \in DOMAIN s.out}]
-----------------------------------------------------------------------------
(* Some instruction still loads the input: for an output that is left, or  *)
(* for something else.                                                     *)
IsLoaded(v, s) == v.feeds = {} \/ v.feeds \intersect Locations(s.out) # {}

NeverDeadInput ==
    {VARYING_SLOT_PRIMITIVE_ID, VARYING_SLOT_FACE, VARYING_SLOT_VIEW_INDEX}
       \union TessLevels

(* Inputs nobody writes become zero; the ones without a load go, except    *)
(* that a domain shader keeps every input the hull shader writes.          *)
dxil_nir_kill_undefined_varyings(s, written) ==
    [s EXCEPT !.in = SelectSeq(@, LAMBDA v :
        \/ v.loc \in NeverDeadInput
        \/ /\ VaryingRange(v) \intersect written # {}
           /\ s.kind = "domain" \/ IsLoaded(v, s))]

nir_slot_is_sysval_output(loc) ==
    loc \in {VARYING_SLOT_POS, VARYING_SLOT_PSIZ, VARYING_SLOT_CLIP_DIST0,
             VARYING_SLOT_CLIP_DIST1, VARYING_SLOT_LAYER, VARYING_SLOT_VIEWPORT,
             VARYING_SLOT_VIEW_INDEX} \union TessLevels

(* Outputs the next stage does not read go, unless the hull shader itself  *)
(* reads them back.                                                        *)
dxil_nir_kill_unused_outputs(s, read) ==
    [s EXCEPT !.out = SelectSeq(@, LAMBDA v :
        \/ nir_slot_is_sysval_output(v.loc)
        \/ s.kind = "hull" /\ VaryingRange(v) \intersect s.outputs_read # {}
        \/ VaryingRange(v) \intersect read # {})]

TessLevelVar(loc, n) ==
    [loc |-> loc, frac |-> 0, slots |-> n, comps |-> n, compact |-> TRUE,
     patch |-> TRUE, stream |-> 0, index |-> 0, feeds |-> {}, dl |-> 0]

AddMissing(vs, v) == IF v.loc \in Locations(vs) THEN vs ELSE Append(vs, v)

dxil_nir_pad_tes_input_signature(tes, tcs) ==
    LET reread == SelectSeq(tcs.out, LAMBDA v :
                     /\ v.loc \notin {VARYING_SLOT_POS, VARYING_SLOT_PSIZ,
                                      VARYING_SLOT_PRIMITIVE_ID,
                                      VARYING_SLOT_LAYER, VARYING_SLOT_VIEWPORT}
                     /\ v.loc \in tcs.outputs_read)
        levels == <<TessLevelVar(VARYING_SLOT_TESS_LEVEL_OUTER, 4),
                    TessLevelVar(VARYING_SLOT_TESS_LEVEL_INNER, 2)>>
    IN  [tes EXCEPT !.in = FoldLeft(AddMissing, @, reread \o levels)]

(* dxil_spirv_nir_link(nir, prev_stage_nir): the pair <<prev, cur>>.  The  *)
(* masks of both stages are the ones the passes gathered.                  *)
dxil_spirv_nir_link(cur, prev) ==
    LET clip == IF cur.kind = "pixel"
                THEN [cur EXCEPT !.clip_size = prev.clip_size] ELSE cur
        live == dxil_nir_kill_undefined_varyings(clip, prev.outputs_written)
        kept == dxil_nir_kill_unused_outputs(prev, live.inputs_read)
        p == IF live.kind = "domain" THEN [kept EXCEPT !.tess = live.tess]
                                     ELSE kept
        n == IF live.kind = "domain"
             THEN dxil_nir_pad_tes_input_signature(live, p) ELSE live
    IN  <<[p EXCEPT !.out = dxil_reassign_driver_locations(@, n.inputs_read)],
          [n EXCEPT !.in = dxil_reassign_driver_locations(@, p.outputs_written)]>>
-----------------------------------------------------------------------------
(* The number of tessellation factors of a domain; 0 removes the variable. *)
LevelCount(loc, tess) ==
    LET n == CASE tess = "quads" -> <<4, 2>>
               [] tess = "triangles" -> <<3, 1>>
               [] tess = "isolines" -> <<2, 0>>
    IN  IF loc = VARYING_SLOT_TESS_LEVEL_OUTER THEN n[1] ELSE n[2]

FixupLevels(vs, tess) ==
    SelectSeq([i \in DOMAIN vs |->
                 IF vs[i].loc \in TessLevels
                 THEN [vs[i] EXCEPT !.slots = LevelCount(vs[i].loc, tess),
                                    !.comps = LevelCount(vs[i].loc, tess)]
                 ELSE vs[i]],
              LAMBDA v : v.slots > 0)

(* The levels keep the driver_location given to them before.               *)
dxil_nir_fixup_tess_level_for_domain(s) ==
    IF Tess(s.kind) THEN [s EXCEPT !.in = FixupLevels(@, s.tess),
                                   !.out = FixupLevels(@, s.tess)]
                    ELSE s

(* possible_sysvalues: the system value, the input that may stand for it   *)
(* (-1: none), its name and the only stage it is looked for in             *)
SysvalueName(text, len) == [text |-> text, sv |-> TRUE, len |-> len]

possible_sysvalues ==
    <<[value |-> "vertex_id", slot |-> -1, only |-> {},
       name |-> SysvalueName("SV_VertexID", 11)],
      [value |-> "instance_id", slot |-> -1, only |-> {},
       name |-> SysvalueName("SV_InstanceID", 13)],
      [value |-> "front_face", slot |-> VARYING_SLOT_FACE, only |-> {},
       name |-> SysvalueName("SV_IsFrontFace", 14)],
      [value |-> "primitive_id", slot |-> VARYING_SLOT_PRIMITIVE_ID,
       only |-> {"geometry"}, name |-> SysvalueName("SV_PrimitiveID", 14)],
      [value |-> "sample_index", slot |-> -1, only |-> {},
       name |-> SysvalueName("SV_SampleIndex", 14)]>>

(* add_sysvalue: the variable of a system value; its semantic goes along.  *)
add_sysvalue(sv, driver_location) ==
    [loc |-> -1, frac |-> 0, slots |-> 1, comps |-> 1, compact |-> FALSE,
     patch |-> FALSE, stream |-> 0, index |-> 0, feeds |-> {},
     dl |-> driver_location, value |-> sv.value, name |-> sv.name]

(* Mutant: the largest driver_location, not the one after it.              *)
LastDriverLocation(vs) ==
    FoldLeft(LAMBDA n, v : IF v.dl > n THEN v.dl ELSE n, 0, vs)

NextDriverLocation(vs) ==
    FoldLeft(LAMBDA n, v : IF v.dl + 1 > n THEN v.dl + 1 ELSE n, 0, vs)

(* append_input_or_sysvalue: an input at the slot serves as well; the      *)
(* driver_location is used up in both cases.                               *)
allocate_sysvalues(s) ==
    LET first == NextDriverLocation(s.in)
        wanted == SelectSeq(possible_sysvalues, LAMBDA sv :
                     /\ sv.value \in s.system_values_read
                     /\ sv.only = {} \/ s.kind \in sv.only)
        made == [i \in DOMAIN wanted |-> add_sysvalue(wanted[i], first + i - 1)]
    IN  [s EXCEPT !.sys = SelectSeq(made, LAMBDA v :
            \A i \in DOMAIN wanted :
               wanted[i].value = v.value =>
                  wanted[i].slot \notin Locations(s.in))]
-----------------------------------------------------------------------------
(* struct semantic_info, before the place is known                         *)
Semantic(kind, name, index, stream) ==
    [kind |-> kind, name |-> name, index |-> index, stream |-> stream,
     start_row |-> 0, rows |-> 1, start_col |-> 0, cols |-> 0]

TEXCOORD == [text |-> "TEXCOORD", sv |-> FALSE, len |-> 8]

SV(kind, text, len, index, v) ==
    Semantic(kind, SysvalueName(text, len), index, v.stream)

get_semantic_vs_in_name(v) == Semantic("arbitrary", TEXCOORD, v.dl, v.stream)

get_semantic_sv_name(v) == Semantic(v.value, v.name, 0, v.stream)

get_semantic_ps_outname(v) ==
    CASE v.loc = FRAG_RESULT_DEPTH -> SV("depth", "SV_Depth", 8, 0, v)
      [] v.loc = FRAG_RESULT_STENCIL
            -> SV("stencil_ref", "SV_StencilRef", 13, 0, v)
      [] v.loc = FRAG_RESULT_SAMPLE_MASK
            -> SV("coverage", "SV_Coverage", 11, 0, v)
      [] OTHER -> SV("target", "SV_Target", 9,
                     IF v.loc = FRAG_RESULT_DATA0 /\ v.index > 0
                     THEN v.index ELSE v.loc - FRAG_RESULT_DATA0, v)

get_semantic_name(v) ==
    CASE v.loc = VARYING_SLOT_POS -> SV("position", "SV_Position", 11, 0, v)
      [] v.loc = VARYING_SLOT_FACE
            -> SV("front_face", "SV_IsFrontFace", 14, 0, v)
      [] v.loc = VARYING_SLOT_PRIMITIVE_ID
            -> SV("primitive_id", "SV_PrimitiveID", 14, 0, v)
      [] v.loc = VARYING_SLOT_CLIP_DIST0
            -> SV("clip_distance", "SV_ClipDistance", 15, 0, v)
      [] v.loc = VARYING_SLOT_CLIP_DIST1
            -> SV("clip_distance", "SV_ClipDistance", 15, 1, v)
      [] v.loc = VARYING_SLOT_TESS_LEVEL_INNER
            -> SV("inside_tess_factor", "SV_InsideTessFactor", 19, 0, v)
      [] v.loc = VARYING_SLOT_TESS_LEVEL_OUTER
            -> SV("tess_factor", "SV_TessFactor", 13, 0, v)
      [] v.loc = VARYING_SLOT_VIEWPORT
            -> SV("viewport", "SV_ViewportArrayIndex", 21, 0, v)
      [] v.loc = VARYING_SLOT_LAYER
            -> SV("layer", "SV_RenderTargetArrayIndex", 25, 0, v)
      [] OTHER -> Semantic("arbitrary", TEXCOORD, v.dl, v.stream)

is_depth_output(kind) == kind \in {"depth", "stencil_ref"}

(* Values that are in no register                                          *)
NoRegister(kind, is_gs_input) ==
    \/ is_depth_output(kind)
    \/ kind = "primitive_id" /\ is_gs_input
    \/ kind \in {"coverage", "sample_index"}

(* Mutant: a variable of several rows advances the row by one.             *)
AdvanceByOne(rows) == 1

RowsTaken(rows) == rows

(* The place of a variable and the next free row                           *)
get_additional_semantic_info(v, sem, next_row, clip_size, is_gs_input) ==
    LET Place(row, rows, col, cols) ==
            [sem EXCEPT !.start_row = row, !.rows = rows,
                        !.start_col = col, !.cols = cols]
        Cull(s) == [s EXCEPT !.kind = "cull_distance",
                             !.name = SysvalueName("SV_CullDistance", 15)]
        start_offset == (v.loc - VARYING_SLOT_CLIP_DIST0) * 4 + v.frac
    IN  CASE sem.kind = "target"
                -> [sem |-> Place(sem.index, 1, 0, 4), next_row |-> next_row]
          [] NoRegister(sem.kind, is_gs_input)
                -> [sem |-> Place(-1, 1, 0, 1), next_row |-> next_row]
          [] sem.kind \in {"tess_factor", "inside_tess_factor"}
                -> [sem |-> Place(next_row, v.slots, 0, 1),
                    next_row |-> next_row + v.slots]
          [] v.compact
                -> [sem |-> IF start_offset >= clip_size
                            THEN Cull(Place(next_row, 1, v.frac, v.slots))
                            ELSE Place(next_row, 1, v.frac, v.slots),
                    next_row |-> next_row + 1]
          [] OTHER
                -> [sem |-> Place(next_row, v.slots, v.frac,
                                  IF v.comps < 4 THEN v.comps ELSE 4),
                    next_row |-> next_row + RowsTaken(v.slots)]
-----------------------------------------------------------------------------
(* The string table of the module: what was copied into it, and where      *)
copy_semantic_name_to_string(strings, name) ==
    [length |-> strings.length + name.len + 1,
     entries |-> Append(strings.entries, [at |-> strings.length, name |-> name])]

(* Mutant: a run of indices that the end of the table cuts off is a match. *)
RunsCutOff(table, index, rows) ==
    {i \in 1..Len(table) : \A j \in 0..rows-1 :
        i + j \in DOMAIN table => table[i + j] = index + j}

(* Where the table already holds index, index + 1, ... for all rows        *)
RunsOf(table, index, rows) ==
    {i \in 1..Len(table) : \A j \in 0..rows-1 :
        i + j \in DOMAIN table /\ table[i + j] = index + j}

FirstOf(S) == CHOOSE i \in S : \A j \in S : i <= j
LastOf(S) == CHOOSE i \in S : \A j \in S : i >= j

append_semantic_index_to_table(table, index, rows) ==
    LET runs == RunsOf(table, index, rows)
    IN  IF runs # {}
        THEN [table |-> table, offset |-> FirstOf(runs) - 1]
        ELSE [table |-> table \o [j \in 1..rows |-> index + j - 1],
              offset |-> Len(table)]

fill_signature_element(sem, row) ==
    [stream |-> sem.stream, semantic_index |-> sem.index + row,
     reg |-> sem.start_row + row, start_col |-> sem.start_col,
     cols |-> sem.cols]

Record(sem) == [name |-> sem.name, num_elements |-> sem.rows,
                elements |-> [i \in 1..sem.rows |->
                                 fill_signature_element(sem, i - 1)]]

(* fill_psv_signature_element: only a name of the user goes into the       *)
(* string table; 0 is the empty string.  `literal' is bit 6 of             *)
(* cols_and_start.                                                         *)
PsvElement(sem, m, index_offset) ==
    [rows |-> sem.rows,
     start_row |-> IF sem.start_row >= 0 THEN sem.start_row ELSE 0,
     literal |-> sem.start_row >= 0,
     start_col |-> sem.start_col, cols |-> sem.cols, kind |-> sem.kind,
     stream |-> sem.stream,
     name_offset |-> IF sem.kind = "arbitrary" THEN m.strings.length ELSE 0,
     index_offset |-> index_offset]

(* One signature: its records, its elements of the validation, the record  *)
(* of each driver_location and the rows used per stream                    *)
EmptySignature == [records |-> <<>>, psv |-> <<>>, mappings |-> <<>>,
                   vectors |-> <<0, 0, 0, 0>>, next_row |-> 0]

MapTo(mappings, dl, n) ==
    [d \in DOMAIN mappings \union {dl} |-> IF d = dl THEN n ELSE mappings[d]]

(* fill_io_signature, with the assignments of its callers around it        *)
fill_io_signature(m, part, v, sem) ==
    LET idx == append_semantic_index_to_table(m.index_table, sem.index, sem.rows)
        sig == m[part]
        n == Len(sig.records) + 1
        used == sem.start_row + sem.rows
    IN  [m EXCEPT
           !.strings = IF sem.kind = "arbitrary"
                       THEN copy_semantic_name_to_string(@, sem.name) ELSE @,
           !.index_table = idx.table,
           ![part] = [sig EXCEPT
              !.records = Append(@, Record(sem)),
              !.psv = Append(@, PsvElement(sem, m, idx.offset)),
              !.mappings = MapTo(@, v.dl, n),
              !.vectors[sem.stream + 1] = IF used > @ THEN used ELSE @]]

(* A variable that shares the row of another takes no row of its own.      *)
PlaceVariable(m, part, v, base, sem, clip_size, is_gs_input) ==
    LET sig == m[part]
        shared == base # v
        row == IF shared THEN sig.psv[sig.mappings[base.dl]].start_row
                         ELSE sig.next_row
        info == get_additional_semantic_info(v, sem, row, clip_size, is_gs_input)
        filled == fill_io_signature(m, part, v, info.sem)
    IN  IF shared THEN filled
                  ELSE [filled EXCEPT ![part].next_row = info.next_row]

(* base_var of an input: among the variables of the location that came     *)
(* before, the first one that leaves these components free, or the last    *)
BaseInput(vs, i) ==
    LET v == vs[i]
        before == {j \in 1..i-1 : vs[j].loc = v.loc}
        free == {j \in before : vs[j].frac = 0 /\ vs[j].comps <= v.frac}
    IN  CASE v.frac = 0 \/ before = {} -> v
          [] free # {} -> vs[FirstOf(free)]
          [] OTHER -> vs[LastOf(before)]

(* base_var of an output: nir_find_variable_with_location                  *)
BaseOutput(vs, i) ==
    IF vs[i].frac = 0 THEN vs[i]
    ELSE vs[FirstOf({j \in 1..i : vs[j].loc = vs[i].loc})]

Indices(vs) == [i \in DOMAIN vs |-> i]

(* get_semantics gives the semantic of each variable, by its place in vs.  *)
get_input_signature_group(m, kind, vs, get_semantics, clip_size) ==
    FoldLeft(LAMBDA acc, i :
                IF vs[i].patch THEN acc
                ELSE PlaceVariable(acc, "inputs", vs[i], BaseInput(vs, i),
                                   get_semantics[i], clip_size,
                                   kind = "geometry"),
             m, Indices(vs))

(* Only a pixel shader knows the clip size of its inputs: the option       *)
(* input_clip_size is 0 in spirv_to_dxil and spirv2dxil.                   *)
process_input_signature(m, s) ==
    LET clip == IF s.kind = "pixel" THEN s.clip_size ELSE 0
        vars_in == get_input_signature_group(
                      m, s.kind, s.in,
                      [i \in DOMAIN s.in |->
                         IF s.kind = "vertex"
                         THEN get_semantic_vs_in_name(s.in[i])
                         ELSE get_semantic_name(s.in[i])], clip)
    IN  get_input_signature_group(
           vars_in, s.kind, s.sys,
           [i \in DOMAIN s.sys |-> get_semantic_sv_name(s.sys[i])], clip)

(* Partial vectors of a pixel shader's outputs are ignored.                *)
process_output_signature(m, s) ==
    FoldLeft(LAMBDA acc, i :
        LET v == s.out[i]
            base == BaseOutput(s.out, i)
        IN  IF v.patch \/ (s.kind = "pixel" /\ v.frac # 0) THEN acc
            ELSE PlaceVariable(acc, "outputs", v,
                               IF base.stream = v.stream THEN base ELSE v,
                               IF s.kind = "pixel" THEN get_semantic_ps_outname(v)
                                                   ELSE get_semantic_name(v),
                               s.clip_size, FALSE),
        m, Indices(s.out))

PatchVariables(s) == CASE s.kind = "hull" -> s.out
                       [] s.kind = "domain" -> s.in
                       [] OTHER -> <<>>

process_patch_const_signature(m, s) ==
    LET vs == PatchVariables(s)
    IN  FoldLeft(LAMBDA acc, i :
                    IF ~ vs[i].patch THEN acc
                    ELSE PlaceVariable(acc, "patch_consts", vs[i],
                                       BaseOutput(vs, i),
                                       get_semantic_name(vs[i]), 0, FALSE),
                 m, Indices(vs))
-----------------------------------------------------------------------------
Dwords(vectors) == (vectors + 7) \div 8

(* prepare_dependency_tables: the words per input of each table, the words *)
(* of each table of inputs, the announced size of the serialized table and *)
(* the pieces laid into it                                                 *)
OutputStreams(kind) == IF kind = "geometry" THEN 4 ELSE 1

dependency_table_dwords_per_input(m, kind) ==
    [i \in 1..4 |->
       CASE i <= OutputStreams(kind) -> Dwords(m.outputs.vectors[i])
         [] i = 2 /\ kind = "hull" -> Dwords(m.patch_consts.vectors[1])
         [] OTHER -> 0]

io_dependency_table_size(m, kind, dwords) ==
    [i \in 1..4 |->
       CASE i <= OutputStreams(kind) \/ (i = 2 /\ kind = "hull")
               -> dwords[i] * m.inputs.vectors[1] * 4
         [] i = 2 /\ kind = "domain"
               -> dwords[1] * m.patch_consts.vectors[1] * 4
         [] OTHER -> 0]

SumUpTo(f, n) == LET sum[i \in 0..n] == IF i = 0 THEN 0 ELSE sum[i-1] + f[i]
                 IN  sum[n]

NumTables(kind) == IF Tess(kind) THEN 2 ELSE OutputStreams(kind)

serialized_dependency_table_size(kind, view, io) ==
    NumTables(kind) + 1 + SumUpTo(view, NumTables(kind))
                        + SumUpTo(io, NumTables(kind))

(* In order: the inputs, per output stream its width, the table of the     *)
(* view and the table of the inputs, and the same for patch constants.     *)
TablePieces(kind, view, io) ==
    LET Piece(what, i, len) == [what |-> what, table |-> i, len |-> len]
        stream(i) == <<Piece("width", i, 1), Piece("view", i, view[i]),
                       Piece("io", i, io[i])>>
    IN  <<Piece("inputs", 0, 1)>>
        \o FlattenSeq([i \in 1..OutputStreams(kind) |-> stream(i)])
        \o (CASE kind = "hull" -> stream(2)
              [] kind = "domain" -> <<Piece("width", 2, 1), Piece("io", 2, io[2])>>
              [] OTHER -> <<>>)

prepare_dependency_tables(m, s) ==
    LET dwords == dependency_table_dwords_per_input(m, s.kind)
        io == io_dependency_table_size(m, s.kind, dwords)
        view == IF s.view_id THEN dwords ELSE <<0, 0, 0, 0>>
    IN  [m EXCEPT !.dwords = dwords, !.io_deps = io,
                  !.table_size = serialized_dependency_table_size(
                                    s.kind, view, io),
                  !.pieces = TablePieces(s.kind, view, io)]

(* The string table begins with an empty string.                           *)
EmptyName == [text |-> "", sv |-> FALSE, len |-> 0]

NoSignatures ==
    [strings |-> copy_semantic_name_to_string([length |-> 0, entries |-> <<>>],
                                              EmptyName),
     index_table |-> <<>>, inputs |-> EmptySignature,
     outputs |-> EmptySignature, patch_consts |-> EmptySignature,
     dwords |-> <<0, 0, 0, 0>>, io_deps |-> <<0, 0, 0, 0>>,
     table_size |-> 0, pieces |-> <<>>]

preprocess_signatures(s) ==
    prepare_dependency_tables(
        process_patch_const_signature(
            process_output_signature(
                process_input_signature(NoSignatures, s), s), s), s)
-----------------------------------------------------------------------------
SignatureInit == /\ stages \in Pipelines
                 /\ mods = <<>>
                 /\ at = Len(stages)
                 /\ pc = "passes"

(* compile_shader of every stage; spirv_to_dxil has only one.              *)
RunPasses == /\ pc = "passes"
             /\ stages' = [i \in DOMAIN stages |->
                              dxil_spirv_nir_passes(stages[i])]
             /\ pc' = "link"
             /\ UNCHANGED <<mods, at>>

(* From the last stage to the first, each with the one before it           *)
Link == /\ pc = "link"
        /\ at > 1
        /\ LET pair == dxil_spirv_nir_link(stages[at], stages[at - 1])
           IN  stages' = [stages EXCEPT ![at - 1] = pair[1], ![at] = pair[2]]
        /\ at' = at - 1
        /\ UNCHANGED <<mods, pc>>

EndLink == /\ pc = "link"
           /\ at = 1
           /\ pc' = "signatures"
           /\ UNCHANGED sigVars

(* nir_to_dxil of one stage after the other, as far as preprocess_signatures *)
PreprocessSignatures ==
    /\ pc = "signatures"
    /\ at <= Len(stages)
    /\ LET s == allocate_sysvalues(
                   dxil_nir_fixup_tess_level_for_domain(stages[at]))
       IN  /\ stages' = [stages EXCEPT ![at] = s]
           /\ mods' = Append(mods, preprocess_signatures(s))
    /\ at' = at + 1
    /\ UNCHANGED pc

SignatureNext == RunPasses \/ Link \/ EndLink \/ PreprocessSignatures
-----------------------------------------------------------------------------
Parts == {"inputs", "outputs", "patch_consts"}

(* The components of the registers an element occupies                     *)
Cells(e) == (e.start_row .. e.start_row + e.rows - 1)
               \X (e.start_col .. e.start_col + e.cols - 1)

(* Packing: the elements of a signature that are in registers occupy       *)
(* components of their own, none reaches past the fourth component, and    *)
(* the rows counted for a stream (which size the dependency tables) hold   *)
(* all its elements - with vectors of several rows, with variables that    *)
(* share a row by their component, and with clip and cull distances.       *)
RowsDoNotOverlap ==
    \A i \in DOMAIN mods, part \in Parts :
       LET sig == mods[i][part]
           placed == {k \in DOMAIN sig.psv : sig.psv[k].literal}
       IN  \A k \in placed :
              /\ sig.psv[k].start_col + sig.psv[k].cols <= 4
              /\ sig.psv[k].start_row + sig.psv[k].rows
                    <= sig.vectors[sig.psv[k].stream + 1]
              /\ \A l \in placed \ {k} :
                    Cells(sig.psv[k]) \intersect Cells(sig.psv[l]) = {}

(* The variables of a signature in the order of their records              *)
Placed(s, part) ==
    CASE part = "inputs" -> SelectSeq(s.in, LAMBDA v : ~ v.patch) \o s.sys
      [] part = "outputs"
            -> SelectSeq(s.out, LAMBDA v :
                  ~ v.patch /\ (s.kind = "pixel" => v.frac = 0))
      [] part = "patch_consts"
            -> SelectSeq(PatchVariables(s), LAMBDA v : v.patch)

RecordOf(i, part, v) == mods[i][part].mappings[v.dl]

(* emit_load_input and emit_store_output find a variable by its            *)
(* driver_location only: the number given by three passes before leads to  *)
(* the record of that very variable, also for system values added behind   *)
(* the inputs, and a partial output of a pixel shader to its whole vector. *)
VariablesReachRecords ==
    \A i \in DOMAIN mods :
       /\ \A part \in Parts :
             LET vs == Placed(stages[i], part)
             IN  /\ Len(vs) = Len(mods[i][part].records)
                 /\ \A k \in DOMAIN vs : RecordOf(i, part, vs[k]) = k
       /\ stages[i].kind = "pixel" =>
             \A v \in ToSet(stages[i].out) :
                Placed(stages[i], "outputs")[RecordOf(i, "outputs", v)].loc
                   = v.loc

PsvOf(i, part, v) == mods[i][part].psv[RecordOf(i, part, v)]

SemanticOf(i, part, v) ==
    mods[i][part].records[RecordOf(i, part, v)].elements[1].semantic_index

OutPart(v) == IF v.patch THEN "patch_consts" ELSE "outputs"
InPart(v) == IF v.patch THEN "patch_consts" ELSE "inputs"

(* The variables that carry a value from stage i to the next one           *)
Carried(i) == {p \in ToSet(stages[i].out) \X ToSet(stages[i + 1].in) :
                  p[1].loc = p[2].loc /\ p[1].frac = p[2].frac}

SameRegister(i, v, w) ==
    LET e == PsvOf(i, OutPart(v), v)
        f == PsvOf(i + 1, InPart(w), w)
    IN  e.literal /\ f.literal => e.start_row = f.start_row

SameSemantic(i, v, w) ==
    PsvOf(i, OutPart(v), v).kind = "arbitrary" =>
       SemanticOf(i, OutPart(v), v) = SemanticOf(i + 1, InPart(w), w)

(* The masks gathered before the stages were linked still say what the     *)
(* stages write and read.  Tessellation levels are the last of their       *)
(* signature, so that the mask only matters for the order of the two.      *)
MasksAreCurrent(i) ==
    LET p == stages[i]
        q == stages[i + 1]
    IN  /\ \A loc \in Locations(p.out) \ TessLevels :
              loc \in q.inputs_read <=> loc \in Locations(q.in)
        /\ \A loc \in Locations(q.in) :
              loc \in p.outputs_written <=> loc \in Locations(p.out)
        /\ VARYING_SLOT_TESS_LEVEL_INNER \in q.inputs_read
              => VARYING_SLOT_TESS_LEVEL_OUTER \in q.inputs_read

(* The stages declare the same variables at each location they share.      *)
SameComponents(i) ==
    LET At(vs, loc) == {v.frac : v \in {u \in ToSet(vs) : u.loc = loc}}
    IN  \A loc \in Locations(stages[i].out) \intersect Locations(stages[i + 1].in) :
           At(stages[i].out, loc) = At(stages[i + 1].in, loc)

Linked(i) == i + 1 \in DOMAIN mods

(* Two stages that follow each other agree on where a value is passed,     *)
(* although each is numbered by itself: by register, and by semantic index *)
(* where they declare the same components.  Outputs nobody reads and       *)
(* inputs nobody writes may not shift the ones they share.  And a domain   *)
(* shader declares all the values its hull shader passes on.               *)
LinkedStagesAgree ==
    \A i \in DOMAIN stages : Linked(i) =>
       /\ MasksAreCurrent(i) =>
             \A p \in Carried(i) :
                /\ SameRegister(i, p[1], p[2])
                /\ SameComponents(i) => SameSemantic(i, p[1], p[2])
       /\ stages[i + 1].kind = "domain" =>
             \A loc \in Locations(stages[i].out) :
                \/ nir_slot_is_sysval_output(loc) /\ loc \notin TessLevels
                \/ loc \in Locations(stages[i + 1].in)

(* "Pad TES input signature so HS<->DS match for D3D12 pipeline            *)
(* validation": what a hull and a domain shader both declare is in the     *)
(* same register of both signatures.                                       *)
HullMatchesDomain ==
    \A i \in DOMAIN stages : Linked(i) /\ stages[i + 1].kind = "domain" =>
       \A p \in Carried(i) : SameRegister(i, p[1], p[2])
=============================================================================
