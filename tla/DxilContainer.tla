---------------------------- MODULE DxilContainer ----------------------------
(***************************************************************************)
(* The DXBC container (mesa/src/microsoft/compiler/dxil_container.c) as    *)
(* nir_to_dxil fills it: part after part goes to the blob c->parts, each   *)
(* behind a header that states its size before its content is written, and *)
(* dxil_container_write puts the directory of part offsets in front.       *)
(*                                                                         *)
(* A blob is its size in bytes and the chunks written to it, each with the *)
(* offset it was written at; what a chunk holds is kept only where a       *)
(* reader of the container follows it: the four-character codes, counts,   *)
(* sizes, offsets, names, and the tables of the pipeline state validation. *)
(* `limit' is the memory that can be had.  The signatures come from        *)
(* DxilSignature; the bitcode and the resources are only their sizes.      *)
(***************************************************************************)
EXTENDS DxilSignature

CONSTANTS
    Validators,  \* the minor versions of the validator there may be
    Resources,   \* the numbers of resources a shader may have
    Bitcode,     \* the bytes of the module's bitcode
    Entry,       \* the name of the entry point
    Limits       \* the bytes of memory there may be for a blob

DXIL_MAX_PARTS == 8

(* sizeof of the C structures                                              *)
ElementSize == 32          \* struct dxil_signature_element
PsvElementSize == 16       \* struct dxil_psv_signature_element

ASSUME SizesAreNumbers == /\ Resources \subseteq Nat
                          /\ Bitcode \in Nat
                          /\ Limits \subseteq Nat
                          /\ Entry.len \in Nat

VARIABLES
    shader,      \* the finished dxil_module of the stage in hand
    c,           \* struct dxil_container
    blob         \* the blob the caller of nir_to_dxil gets

vars == <<stages, mods, at, pc, shader, c, blob>>

Chunk(value, len) == [value |-> value, len |-> len]
Word(value) == Chunk(value, 4)

blob_init(limit) == [chunks |-> <<>>, size |-> 0, limit |-> limit,
                     out_of_memory |-> FALSE, ok |-> TRUE]

(* blob_write_bytes; calls are chained with ||, so none follows a failure. *)
blob_write_bytes(bl, ch) ==
    IF ~ bl.ok THEN bl
    ELSE IF bl.out_of_memory \/ bl.size + ch.len > bl.limit
         THEN [bl EXCEPT !.out_of_memory = TRUE, !.ok = FALSE]
         ELSE [bl EXCEPT !.chunks = Append(@, [at |-> bl.size,
                                               value |-> ch.value,
                                               len |-> ch.len]),
                         !.size = @ + ch.len]

SumOf(s) == SumUpTo(s, Len(s))

(* The chunks of chs one after the other.                                  *)
WriteAll(bl, chs) ==
    LET written[i \in 0..Len(chs)] ==
          IF i = 0 THEN bl ELSE blob_write_bytes(written[i-1], chs[i])
    IN  written[Len(chs)]

dxil_container_init(limit) ==
    [parts |-> blob_init(limit), part_offsets |-> <<>>]

add_part_header(con, fourcc, part_size) ==
    LET p == WriteAll(con.parts, <<Word(fourcc), Word(part_size)>>)
    IN  [parts |-> p,
         part_offsets |-> IF p.ok THEN Append(con.part_offsets, con.parts.size)
                                  ELSE con.part_offsets]

(* A header, then the content                                              *)
add_part(con, fourcc, part_size, chs) ==
    LET h == add_part_header(con, fourcc, part_size)
    IN  [h EXCEPT !.parts = WriteAll(@, chs)]

dxil_container_add_features(con) ==
    add_part(con, "SFI0", 8, <<Chunk("features", 8)>>)
-----------------------------------------------------------------------------
(* The name buffer of a signature: its bytes so far, the chunks they came  *)
(* in, the names that can be shared, and the offset given to each record.  *)
NoNames == [length |-> 0, chunks |-> <<>>, cache |-> <<>>, offsets |-> <<>>]

(* Mutant: system values are not treated specially.                        *)
ShareableFrom7(name, validator_7) == validator_7

Shareable(name, validator_7) == validator_7 \/ name.sv

(* Mutant: any cached name is taken for a match.                           *)
CachedAnywhere(names, name) == DOMAIN names.cache

CachedAt(names, name) ==
    {i \in DOMAIN names.cache : names.cache[i].name = name}

(* get_semantic_name_offset                                                *)
get_semantic_name_offset(names, name, buf_offset, validator_7) ==
    LET offset == names.length + buf_offset
        hits == CachedAt(names, name)
    IN  IF Shareable(name, validator_7) /\ hits # {}
        THEN [names EXCEPT !.offsets =
                Append(@, names.cache[CHOOSE i \in hits : TRUE].offset)]
        ELSE [length |-> names.length + name.len + 1,
              chunks |-> Append(names.chunks, Chunk(name, name.len + 1)),
              cache |-> IF Shareable(name, validator_7)
                        THEN Append(names.cache,
                                    [name |-> name, offset |-> offset])
                        ELSE names.cache,
              offsets |-> Append(names.offsets, offset)]

PaddingTo4(n) == (4 - (n % 4)) % 4

(* collect_semantic_names                                                  *)
collect_semantic_names(records, buf_offset, validator_7) ==
    LET collected[i \in 0..Len(records)] ==
          IF i = 0 THEN NoNames
          ELSE get_semantic_name_offset(collected[i-1], records[i].name,
                                        buf_offset, validator_7)
        names == collected[Len(records)]
        pad == PaddingTo4(names.length)
    IN  IF validator_7 /\ pad # 0
        THEN [names EXCEPT !.length = @ + pad,
                           !.chunks = Append(@, Chunk("padding", pad))]
        ELSE names

ElementCount(records) == SumOf([i \in DOMAIN records |->
                                    records[i].num_elements])

(* The elements of all records, each with the offset of its record's name. *)
ElementsOf(record, i, offset) ==
    [j \in 1..record.num_elements |->
       Chunk([semantic_name_offset |-> offset, record |-> i], ElementSize)]

Elements(records, offsets) ==
    LET copied[i \in 0..Len(records)] ==
          IF i = 0 THEN <<>>
          ELSE copied[i-1] \o ElementsOf(records[i], i, offsets[i])
    IN  copied[Len(records)]

dxil_container_add_io_signature(con, part, records, validator_7) ==
    LET count == ElementCount(records)
        fixed_size == 8 + ElementSize * count
        names == collect_semantic_names(records, fixed_size, validator_7)
    IN  add_part(con, part, fixed_size + names.length,
                 <<Word(count), Word(8)>> \o Elements(records, names.offsets)
                    \o names.chunks)
-----------------------------------------------------------------------------
(* sizeof(struct dxil_psv_runtime_info_3, _2 or _1), and of a resource     *)
PsvSize(minor) == IF minor >= 8 THEN 52 ELSE IF minor >= 6 THEN 48 ELSE 36
ResourceSize(minor) == IF minor >= 6 THEN 24 ELSE 16

RoundUp4(n) == n + PaddingTo4(n)

NumSigs(m) == Len(m.inputs) + Len(m.outputs) + Len(m.patch_consts)

(* Mutant: the word in front of the signature elements is not counted.     *)
PsvPartSizeShort(m) ==
    PsvSize(m.minor_validator) + 8
    + (IF m.resources > 0 THEN 4 + ResourceSize(m.minor_validator) * m.resources
                          ELSE 0)
    + 4 + RoundUp4(m.strings.length) + 4 + 4 * Len(m.index_table)
    + PsvElementSize * NumSigs(m)
    + (IF m.view_id THEN 4 * SumOf(m.view_id_deps) ELSE 0)
    + 4 * SumOf(m.io_deps)

(* The size dxil_container_add_state_validation announces                  *)
PsvPartSize(m) ==
    PsvSize(m.minor_validator) + 8
    + (IF m.resources > 0 THEN 4 + ResourceSize(m.minor_validator) * m.resources
                          ELSE 0)
    + 4 + RoundUp4(m.strings.length) + 4 + 4 * Len(m.index_table)
    + (IF NumSigs(m) > 0 THEN 4 ELSE 0)
    + PsvElementSize * NumSigs(m)
    + (IF m.view_id THEN 4 * SumOf(m.view_id_deps) ELSE 0)
    + 4 * SumOf(m.io_deps)

(* Before validator 1.8 a geometry shader keeps only the last non-empty    *)
(* dependency table; the earlier ones are written as zeros.                *)
Zeroed(m, deps, i) == /\ m.kind = "geometry"
                      /\ m.minor_validator < 8
                      /\ deps[i] # 0
                      /\ \E j \in i+1..4 : deps[j] # 0

DependencyTables(m, deps) ==
    [i \in 1..4 |-> Chunk(IF Zeroed(m, deps, i) THEN "zeros" ELSE "deps",
                          4 * deps[i])]

(* dxil_fill_validation_state: from validator 1.8 on the name of the entry *)
(* point goes to the end of the string table.                              *)
dxil_fill_validation_state(m) ==
    IF m.minor_validator >= 8
    THEN [m EXCEPT !.entry_function_name = m.strings.length,
                   !.strings = copy_semantic_name_to_string(@, Entry)]
    ELSE m

(* The fields of the runtime info a reader of the tables needs             *)
PsvState(m) == [uses_view_id |-> m.view_id,
                sig_elements |-> <<Len(m.inputs), Len(m.outputs),
                                   Len(m.patch_consts)>>,
                entry_function_name |-> m.entry_function_name]

(* and what it writes                                                      *)
PsvChunks(m) ==
    <<Word(PsvSize(m.minor_validator)),
      Chunk(PsvState(m), PsvSize(m.minor_validator)),
      Word(m.resources)>>
    \o (IF m.resources > 0
        THEN <<Word(ResourceSize(m.minor_validator)),
               Chunk("resources", ResourceSize(m.minor_validator) * m.resources)>>
        ELSE <<>>)
    \o <<Word(RoundUp4(m.strings.length)),
         Chunk(m.strings.entries, m.strings.length),
         Chunk("fill", RoundUp4(m.strings.length) - m.strings.length),
         Word(Len(m.index_table))>>
    \o (IF Len(m.index_table) > 0
        THEN <<Chunk(m.index_table, 4 * Len(m.index_table))>> ELSE <<>>)
    \o (IF NumSigs(m) > 0
        THEN <<Word(PsvElementSize),
               Chunk(m.psv.inputs, PsvElementSize * Len(m.inputs)),
               Chunk(m.psv.outputs, PsvElementSize * Len(m.outputs)),
               Chunk(m.psv.patch_consts,
                     PsvElementSize * Len(m.patch_consts))>>
        ELSE <<>>)
    \o (IF m.view_id THEN DependencyTables(m, m.view_id_deps) ELSE <<>>)
    \o DependencyTables(m, m.io_deps)

dxil_container_add_state_validation(con, m) ==
    add_part(con, "PSV0", PsvPartSize(m), PsvChunks(m))

dxil_container_add_module(con, m) ==
    LET size == 6 * 4 + m.bitcode
    IN  add_part(con, "DXIL", size,
                 <<Word("version"), Word(size \div 4), Word("magic"),
                   Word("dxil_version"), Word(16), Word(m.bitcode),
                   Chunk("bitcode", m.bitcode)>>)

header_size(con) == 32 + 4 * Len(con.part_offsets)

(* Mutant: the result of the last write is not looked at.                  *)
CopyUnchecked(parts, bl) ==
    IF ~ bl.ok THEN bl
    ELSE [bl EXCEPT !.out_of_memory = @ \/ bl.size + parts.size > bl.limit]

(* c->parts is copied as one block of bytes.                               *)
CopyOf(parts, bl) ==
    IF ~ bl.ok THEN bl
    ELSE IF bl.out_of_memory \/ bl.size + parts.size > bl.limit
         THEN [bl EXCEPT !.out_of_memory = TRUE, !.ok = FALSE]
         ELSE [bl EXCEPT !.chunks = @ \o [i \in DOMAIN parts.chunks |->
                            [parts.chunks[i] EXCEPT !.at = @ + bl.size]],
                         !.size = @ + parts.size]

dxil_container_write(con, bl) ==
    CopyOf(con.parts,
           WriteAll(bl, <<Word("DXBC"), Chunk("digest", 16), Chunk("major", 2),
                          Chunk("minor", 2),
                          Word(header_size(con) + con.parts.size),
                          Word(Len(con.part_offsets))>>
                        \o [i \in DOMAIN con.part_offsets |->
                              Word(header_size(con) + con.part_offsets[i])]))
-----------------------------------------------------------------------------
Init == /\ SignatureInit
        /\ shader = <<>>
        /\ c = dxil_container_init(0)
        /\ blob = blob_init(0)

(* What the container needs of the module of stage i                       *)
ShaderOf(i, minor_validator, resources) ==
    LET m == mods[i]
    IN  [kind |-> stages[i].kind, view_id |-> stages[i].view_id,
         minor_validator |-> minor_validator, resources |-> resources,
         inputs |-> m.inputs.records, outputs |-> m.outputs.records,
         patch_consts |-> m.patch_consts.records,
         psv |-> [inputs |-> m.inputs.psv, outputs |-> m.outputs.psv,
                  patch_consts |-> m.patch_consts.psv],
         strings |-> m.strings, index_table |-> m.index_table,
         entry_function_name |-> 0,
         view_id_deps |-> m.dwords, io_deps |-> m.io_deps,
         bitcode |-> Bitcode]

(* The rest of nir_to_dxil for one stage: emit_module has succeeded.       *)
StartContainer ==
    /\ pc = "signatures"
    /\ at > Len(stages)
    /\ \E i \in DOMAIN stages, v \in Validators, r \in Resources :
          shader' = ShaderOf(i, v, r)
    /\ \E limit \in Limits : /\ c' = dxil_container_init(limit)
                             /\ blob' = blob_init(limit)
    /\ pc' = "SFI0"
    /\ UNCHANGED sigVars

(* One part of nir_to_dxil: after a failure it goes to out.                *)
Add(part, next, con) == /\ pc = part
                        /\ c' = con
                        /\ pc' = IF con.parts.ok THEN next ELSE "failed"
                        /\ UNCHANGED <<sigVars, blob>>

AddFeatures == /\ Add("SFI0", "ISG1", dxil_container_add_features(c))
               /\ UNCHANGED shader

Signature(part, records) ==
    dxil_container_add_io_signature(c, part, records,
                                    shader.minor_validator >= 7)

AddInputs == /\ Add("ISG1", "OSG1", Signature("ISG1", shader.inputs))
             /\ UNCHANGED shader

AddOutputs == /\ Add("OSG1", IF Tess(shader.kind) THEN "PSG1" ELSE "PSV0",
                     Signature("OSG1", shader.outputs))
              /\ UNCHANGED shader

AddPatchConstants ==
    /\ Add("PSG1", "PSV0", Signature("PSG1", shader.patch_consts))
    /\ UNCHANGED shader

AddStateValidation ==
    /\ pc = "PSV0"
    /\ shader' = dxil_fill_validation_state(shader)
    /\ Add("PSV0", "DXIL", dxil_container_add_state_validation(c, shader'))

AddModule == /\ Add("DXIL", "write", dxil_container_add_module(c, shader))
             /\ UNCHANGED shader

Write == /\ pc = "write"
         /\ blob' = dxil_container_write(c, blob)
         /\ pc' = IF blob'.ok THEN "done" ELSE "failed"
         /\ UNCHANGED <<sigVars, shader, c>>

Next == \/ SignatureNext /\ UNCHANGED <<shader, c, blob>>
        \/ StartContainer
        \/ AddFeatures \/ AddInputs \/ AddOutputs \/ AddPatchConstants
        \/ AddStateValidation \/ AddModule \/ Write

Spec == Init /\ [][Next]_vars
-----------------------------------------------------------------------------
(* What a reader of the container does: find the chunk at an offset.       *)
ChunksAt(bl, offset) ==
    {bl.chunks[i] : i \in {j \in DOMAIN bl.chunks :
                             bl.chunks[j].at = offset /\ bl.chunks[j].len > 0}}

ReadWord(bl, offset) == CHOOSE v \in {ch.value : ch \in ChunksAt(bl, offset)} : TRUE

PartCount == ReadWord(blob, 28)
PartAt(i) == ReadWord(blob, 28 + 4 * i)
PartCode(i) == ReadWord(blob, PartAt(i))
PartSize(i) == ReadWord(blob, PartAt(i) + 4)

ExpectedParts ==
    <<"SFI0", "ISG1", "OSG1">>
    \o (IF Tess(shader.kind) THEN <<"PSG1">> ELSE <<>>)
    \o <<"PSV0", "DXIL">>

TypeOK == /\ at \in 0..Len(stages) + 1
          /\ Len(mods) <= Len(stages)
          /\ c.parts.size \in 0..c.parts.limit
          /\ blob.size \in 0..blob.limit
          /\ Len(c.part_offsets) \in 0..DXIL_MAX_PARTS
          /\ pc \in {"passes", "link", "signatures", "SFI0", "ISG1", "OSG1",
                     "PSG1", "PSV0", "DXIL", "write", "done", "failed"}

(* In a finished container the sizes announced before the content was      *)
(* written are the sizes of the content: from the directory, each part     *)
(* ends where the next one begins, the last at the announced end of the    *)
(* file, and the parts are the ones of the shader kind, in order.          *)
PartsTile ==
    pc = "done" =>
       /\ ReadWord(blob, 24) = blob.size
       /\ PartCount = Len(ExpectedParts)
       /\ PartAt(1) = 32 + 4 * PartCount
       /\ \A i \in 1..PartCount :
             /\ PartCode(i) = ExpectedParts[i]
             /\ PartAt(i) + 8 + PartSize(i) =
                   IF i = PartCount THEN blob.size ELSE PartAt(i + 1)

RecordsOf(i) == CASE PartCode(i) = "ISG1" -> shader.inputs
                  [] PartCode(i) = "OSG1" -> shader.outputs
                  [] PartCode(i) = "PSG1" -> shader.patch_consts

SignatureParts ==
    {i \in 1..PartCount : PartCode(i) \in {"ISG1", "OSG1", "PSG1"}}

(* The content of part i, and the elements of a signature part             *)
Content(i) == PartAt(i) + 8
ElementsRead(i) == 1..ReadWord(blob, Content(i))
Element(i, k) == ReadWord(blob, Content(i) + 8 + ElementSize * (k - 1))
NameRead(i, k) ==
    ReadWord(blob, Content(i) + Element(i, k).semantic_name_offset)

(* Every element of a signature leads a reader to its own semantic name,   *)
(* whether the name was stored for it or shared with an earlier record,    *)
(* and elements come in the order of the records.                          *)
NamesResolve ==
    pc = "done" =>
       \A i \in SignatureParts :
          /\ ElementsRead(i) = 1..ElementCount(RecordsOf(i))
          /\ \A k \in ElementsRead(i) :
                NameRead(i, k) = RecordsOf(i)[Element(i, k).record].name
          /\ \A k, l \in ElementsRead(i) :
                k < l => Element(i, k).record <= Element(i, l).record

(* "DXC doesn't de-duplicate arbitrary semantic names until validator 1.7, *)
(* only SVs": two elements of a signature share a name exactly then, and   *)
(* from validator 1.7 on every part is aligned to four bytes.              *)
NamesAreShared ==
    pc = "done" =>
       /\ \A i \in SignatureParts : \A k, l \in ElementsRead(i) :
             /\ NameRead(i, k) = NameRead(i, l)
             /\ Element(i, k).record # Element(i, l).record
             => (  Element(i, k).semantic_name_offset
                     = Element(i, l).semantic_name_offset
                <=> NameRead(i, k).sv \/ shader.minor_validator >= 7)
       /\ shader.minor_validator >= 7 =>
             \A i \in 1..PartCount : PartAt(i) % 4 = 0

(* A container is only handed out when everything fitted: memory that runs *)
(* out in the middle of a part, or of the final copy, always ends in       *)
(* failure, and the directory only lists parts whose header was written.   *)
NoPartialSuccess ==
    /\ pc = "done" => /\ ~ c.parts.out_of_memory
                      /\ ~ blob.out_of_memory
    /\ \A i \in DOMAIN c.part_offsets :
          c.part_offsets[i] + 8 <= c.parts.size

IsRecords(records) ==
    /\ records \in Seq(ToSet(records))
    /\ \A r \in ToSet(records) : r.num_elements \in Nat /\ r.name.len \in Nat

(* What the C types say of the module that a container is made of.         *)
IsModule(m) ==
    /\ \A part \in Parts : IsRecords(m[part].records)
    /\ m.strings.length \in Nat
    /\ m.index_table \in Seq(Int)
    /\ m.dwords \in [1..4 -> Nat]
    /\ m.io_deps \in [1..4 -> Nat]

SignaturesAreWhole == \A i \in DOMAIN mods : IsModule(mods[i])

(* Reading the validation part: each field is found from the sizes of the  *)
(* ones before it.                                                         *)
PsvRead ==
    LET Part == CHOOSE i \in 1..PartCount : PartCode(i) = "PSV0"
        Words(pos, n) == IF n = 0 THEN <<>> ELSE ReadWord(blob, pos)
        size == ReadWord(blob, Content(Part))
        state == ReadWord(blob, Content(Part) + 4)
        count_at == Content(Part) + 4 + size
        count == ReadWord(blob, count_at)
        strings_at == count_at + 4
                      + (IF count = 0 THEN 0
                         ELSE 4 + count * ReadWord(blob, count_at + 4))
        indices_at == strings_at + 4 + ReadWord(blob, strings_at)
        indices == ReadWord(blob, indices_at)
        elements_at == indices_at + 4 + 4 * indices
        Elements3(j) == Words(elements_at + 4 + PsvElementSize
                                 * SumOf(SubSeq(state.sig_elements, 1, j - 1)),
                              state.sig_elements[j])
    IN  [state |-> state, strings |-> ReadWord(blob, strings_at + 4),
         indices |-> Words(indices_at + 4, indices),
         elements |-> <<Elements3(1), Elements3(2), Elements3(3)>>]

(* The signatures have the types that the C code gives them, and a reader  *)
(* of the validation part finds the tables of strings and indices where    *)
(* they are, and through them the name and all semantic indices of every   *)
(* element - shared runs of indices included - and the entry point, which  *)
(* is put behind the names later; the dependency tables laid out with the  *)
(* signatures fill the size they were given.                               *)
PsvResolves ==
    /\ SignaturesAreWhole
    /\ \A i \in DOMAIN mods :
          SumOf([k \in DOMAIN mods[i].pieces |-> mods[i].pieces[k].len])
             = mods[i].table_size
    /\ pc = "done" =>
          LET psv == PsvRead
              NameIs(offset, name) ==
                 \E e \in ToSet(psv.strings) : e.at = offset /\ e.name = name
              records == <<shader.inputs, shader.outputs, shader.patch_consts>>
          IN  /\ shader.minor_validator >= 8
                    => NameIs(psv.state.entry_function_name, Entry)
              /\ \A j \in 1..3 : \A k \in DOMAIN records[j] :
                    LET e == psv.elements[j][k]
                        r == records[j][k]
                    IN  /\ NameIs(e.name_offset,
                                  IF r.name.sv THEN EmptyName ELSE r.name)
                        /\ \A n \in 1..r.num_elements :
                              /\ e.index_offset + n \in DOMAIN psv.indices
                              /\ psv.indices[e.index_offset + n]
                                    = r.elements[n].semantic_index
-----------------------------------------------------------------------------
(* The inductive invariant behind PartsTile and NoPartialSuccess.          *)

(* The chunks of a blob follow each other within its size, and memory has  *)
(* run out exactly when a write has failed.                                *)
IsLaid(bl) ==
    /\ bl.size <= bl.limit
    /\ bl.ok <=> ~ bl.out_of_memory
    /\ \A i \in DOMAIN bl.chunks :
          /\ bl.chunks[i].at + bl.chunks[i].len <= bl.size
          /\ \A j \in 1..i-1 :
                bl.chunks[j].at + bl.chunks[j].len <= bl.chunks[i].at

Holds(bl, offset, value) ==
    \E i \in DOMAIN bl.chunks : /\ bl.chunks[i].at = offset
                                /\ bl.chunks[i].value = value
                                /\ bl.chunks[i].len > 0

(* Where part i of a container under construction ends                     *)
EndOfPart(con, i) == IF i = Len(con.part_offsets) THEN con.parts.size
                                                  ELSE con.part_offsets[i + 1]

(* The parts so far are the ones of codes: each has its header where the   *)
(* directory says, which announces the bytes up to the next part.          *)
PartsAre(con, codes) ==
    /\ con.parts.ok
    /\ Len(con.part_offsets) = Len(codes)
    /\ IF codes = <<>> THEN con.parts.size = 0 ELSE con.part_offsets[1] = 0
    /\ \A i \in DOMAIN codes :
          LET from == con.part_offsets[i]
          IN  /\ Holds(con.parts, from, codes[i])
              /\ Holds(con.parts, from + 4, EndOfPart(con, i) - from - 8)

(* The parts that are written when a part is next                          *)
PartsBefore(part) ==
    CASE part = "SFI0" -> <<>>
      [] part = "ISG1" -> <<"SFI0">>
      [] part = "OSG1" -> <<"SFI0", "ISG1">>
      [] part = "PSG1" -> <<"SFI0", "ISG1", "OSG1">>
      [] part = "PSV0" -> <<"SFI0", "ISG1", "OSG1">>
                          \o (IF Tess(shader.kind) THEN <<"PSG1">> ELSE <<>>)
      [] part = "DXIL" -> <<"SFI0", "ISG1", "OSG1">>
                          \o (IF Tess(shader.kind) THEN <<"PSG1">> ELSE <<>>)
                          \o <<"PSV0">>
      [] part = "write" -> ExpectedParts

ContainerParts == {"SFI0", "ISG1", "OSG1", "PSG1", "PSV0", "DXIL", "write"}

(* What AddFeatures and the actions after it know of the module            *)
ShaderFields == {"kind", "view_id", "minor_validator", "resources", "inputs",
                 "outputs", "patch_consts", "psv", "strings", "index_table",
                 "entry_function_name", "view_id_deps", "io_deps", "bitcode"}

IsShader(m) ==
    /\ DOMAIN m = ShaderFields
    /\ IsRecords(m.inputs) /\ IsRecords(m.outputs) /\ IsRecords(m.patch_consts)
    /\ m.strings.length \in Nat
    /\ m.index_table \in Seq(Int)
    /\ m.view_id_deps \in [1..4 -> Nat]
    /\ m.io_deps \in [1..4 -> Nat]
    /\ m.resources \in Nat
    /\ m.bitcode \in Nat

Building ==
    pc \in ContainerParts =>
       /\ IsShader(shader)
       /\ pc = "PSG1" => Tess(shader.kind)
       /\ PartsAre(c, PartsBefore(pc))
       /\ blob = blob_init(blob.limit)

IInv == /\ IsLaid(c.parts) /\ IsLaid(blob)
        /\ Building
        /\ PartsTile
        /\ NoPartialSuccess
=============================================================================
