---------------------------- MODULE DxilEmitModule ----------------------------
(***************************************************************************)
(* dxil_emit_module (mesa/src/microsoft/compiler/dxil_module.c): a finished*)
(* dxil_module is numbered by assign_values and written section after      *)
(* section as LLVM bitcode.                                                *)
(*                                                                         *)
(* The module is one that nir_to_dxil builds here, step after step         *)
(* (DxilModule), or one of a set of finished modules with the kinds of     *)
(* entries and instructions those steps leave out.                         *)
(***************************************************************************)
EXTENDS DxilModule, DxilBitstream, BitstreamReader, FiniteSetsExt

CONSTANTS
    Modules,     \* the finished modules to write
    Limits,      \* the words of memory there may be
    Triple, Datalayout,     \* the two fixed strings of the module
    UINT32_MAX   \* the slot of all attribute groups

VARIABLE
    m            \* the output stream of the module; pc is the next section

vars == <<mod, asked, m, pc>>

MODULE_BLOCK == 8
PARAMATTR == 9
PARAMATTR_GROUP == 10
CONST_BLOCK == 11
FUNCTION_BLOCK == 12
VALUE_SYMTAB_BLOCK == 14
METADATA_BLOCK == 15
TYPE_BLOCK == 17
BLOCKINFO == 0

Init == \/ /\ mod \in Modules
           /\ asked = {}
           /\ pc = "header"
           /\ \E limit \in Limits : m = dxil_module_init(limit)
        \/ BuildInit /\ m = dxil_module_init(Max(Limits))

(* assign_values: globals, functions and constants are numbered through;   *)
(* every function body starts after them, and an instruction without a     *)
(* value has the number of the next one that has a value.                  *)
ValuesBeforeBodies(md) == Len(md.gvars) + Len(md.funcs) + Len(md.consts)

(* Mutant: instructions without a value are numbered too.                  *)
NumberEvery(md, def, i) == ValuesBeforeBodies(md) + i - 1

InstrId(md, def, i) ==
    ValuesBeforeBodies(md)
    + Cardinality({j \in 1..i - 1 : def.instrs[j].has_value})

value_id(md, def, v) ==
    CASE v[1] = "gvar" -> v[2] - 1
      [] v[1] = "func" -> Len(md.gvars) + v[2] - 1
      [] v[1] = "const" -> Len(md.gvars) + Len(md.funcs) + v[2] - 1
      [] v[1] = "instr" -> InstrId(md, def, v[2])

NoDef == [instrs |-> <<>>]
global_id(md, v) == value_id(md, NoDef, v)
-----------------------------------------------------------------------------
(* The abbreviation tables, in the order of their ids                      *)
value_symtab_abbrevs ==
    <<<<FIXED(3), VBR(8), ARRAY, FIXED(8)>>,
      <<LITERAL(1), VBR(8), ARRAY, FIXED(7)>>,
      <<LITERAL(1), VBR(8), ARRAY, CHAR6>>,
      <<LITERAL(2), VBR(8), ARRAY, CHAR6>>>>

const_abbrevs == <<<<LITERAL(1), TYPE_INDEX>>,
                   <<LITERAL(4), VBR(8)>>,
                   <<LITERAL(11), FIXED(4), TYPE_INDEX, VBR(8)>>,
                   <<LITERAL(2)>>>>

func_abbrevs == <<<<LITERAL(20), VBR(6), TYPE_INDEX, VBR(4), FIXED(1)>>,
                  <<LITERAL(2), VBR(6), VBR(6), FIXED(4)>>,
                  <<LITERAL(2), VBR(6), VBR(6), FIXED(4), FIXED(7)>>,
                  <<LITERAL(3), VBR(6), TYPE_INDEX, FIXED(4)>>,
                  <<LITERAL(10)>>,
                  <<LITERAL(10), VBR(6)>>,
                  <<LITERAL(15)>>,
                  <<LITERAL(43), FIXED(1), TYPE_INDEX, ARRAY, VBR(6)>>>>

type_table_abbrevs == <<<<LITERAL(8), TYPE_INDEX, LITERAL(0)>>,
                        <<LITERAL(21), FIXED(1), ARRAY, TYPE_INDEX>>,
                        <<LITERAL(18), FIXED(1), ARRAY, TYPE_INDEX>>,
                        <<LITERAL(19), ARRAY, CHAR6>>,
                        <<LITERAL(20), FIXED(1), ARRAY, TYPE_INDEX>>,
                        <<LITERAL(11), VBR(8), TYPE_INDEX>>,
                        <<LITERAL(12), VBR(8), TYPE_INDEX>>>>

metadata_abbrevs == <<<<LITERAL(1), ARRAY, FIXED(8)>>,
                      <<LITERAL(4), ARRAY, FIXED(8)>>>>

(* Defined in the block of module constants and never used                 *)
module_const_abbrevs == <<<<LITERAL(7), ARRAY, FIXED(5)>>,
                          <<LITERAL(8), ARRAY, FIXED(8)>>,
                          <<LITERAL(9), ARRAY, FIXED(7)>>,
                          <<LITERAL(9), ARRAY, CHAR6>>>>

(* A record packed by the k-th abbreviation of a table                     *)
Packed(s, table, k, data) ==
    emit_record_abbrev(s, FIRST_APPLICATION_ABBREV + k - 1, table[k], data)

(* SETBID, then the abbreviations of that block                            *)
BlockAbbrevs(s, block, table) == define_abbrevs(emit_record(s, 1, <<block>>), table)

emit_blockinfo(s) ==
    LET v == BlockAbbrevs(enter_subblock(s, BLOCKINFO, 2),
                          VALUE_SYMTAB_BLOCK, value_symtab_abbrevs)
        c == BlockAbbrevs(v, CONST_BLOCK, const_abbrevs)
        f == BlockAbbrevs(c, FUNCTION_BLOCK, func_abbrevs)
    IN  exit_block(f)
-----------------------------------------------------------------------------
(* DXIL_ATTR_ENUM is 0, _ENUM_VALUE 1, _STRING 3 and _STRING_VALUE 4.      *)
AttribData(a) == CASE a.type = 0 -> <<0, a.kind>>
                   [] a.type = 1 -> <<1, a.kind, a.value>>
                   [] a.type = 3 -> <<3>> \o a.key \o <<0>>
                   [] a.type = 4 -> <<4>> \o a.key \o <<0>> \o a.value \o <<0>>

emit_attrib_group_table(s, md) ==
    LET Group(t, i) == emit_record(t, 3, <<i, UINT32_MAX>> \o
            FlattenSeq([j \in DOMAIN md.attrs[i] |-> AttribData(md.attrs[i][j])]))
    IN  exit_block(EmitEach(Group, enter_subblock(s, PARAMATTR_GROUP, 3),
                            [i \in DOMAIN md.attrs |-> i]))

emit_attribute_table(s, md) ==
    LET Entry(t, i) == emit_record(t, 2, <<i>>)
    IN  exit_block(EmitEach(Entry, enter_subblock(s, PARAMATTR, 3),
                            [i \in DOMAIN md.attrs |-> i]))

is_char6_string(name) == \A i \in DOMAIN name : is_char6(name[i])

emit_struct_type(s, t) ==
    LET named == IF t.name = <<>> THEN s
                 ELSE IF is_char6_string(t.name)
                 THEN Packed(s, type_table_abbrevs, 4, <<19>> \o t.name)
                 ELSE emit_record(s, 19, t.name)
    IN  IF t.name = <<>>
        THEN Packed(named, type_table_abbrevs, 3, <<18, 0>> \o t.elems)
        ELSE Packed(named, type_table_abbrevs, 5, <<20, 0>> \o t.elems)

FloatCode(bits) == CASE bits = 16 -> 10 [] bits = 32 -> 3 [] bits = 64 -> 4

emit_pointer_type(s, t) == Packed(s, type_table_abbrevs, 1, <<8, t.target, 0>>)

emit_array_type(s, t) == Packed(s, type_table_abbrevs, 6, <<11, t.num, t.elem>>)

emit_vector_type(s, t) == Packed(s, type_table_abbrevs, 7, <<12, t.num, t.elem>>)

emit_function_type(s, t) ==
    Packed(s, type_table_abbrevs, 2, <<21, 0, t.ret>> \o t.args)

emit_type(s, t) ==
    CASE t.kind = "void" -> emit_record(s, 2, <<>>)
      [] t.kind = "int" -> emit_record(s, 7, <<t.bits>>)
      [] t.kind = "float" -> emit_record(s, FloatCode(t.bits), <<>>)
      [] t.kind = "pointer" -> emit_pointer_type(s, t)
      [] t.kind = "struct" -> emit_struct_type(s, t)
      [] t.kind = "array" -> emit_array_type(s, t)
      [] t.kind = "function" -> emit_function_type(s, t)
      [] t.kind = "vector" -> emit_vector_type(s, t)

(* One more entry than the list has: the metadata type                     *)
emit_type_table(s, md) ==
    LET a == define_abbrevs(enter_subblock(s, TYPE_BLOCK, 4), type_table_abbrevs)
        n == emit_record(a, 1, <<1 + Len(md.types)>>)
    IN  exit_block(emit_record(EmitEach(emit_type, n, md.types), 16, <<>>))
-----------------------------------------------------------------------------
util_logbase2(n) == IF n = 0 THEN 0
                    ELSE CHOOSE p \in 0..30 : 2^p <= n /\ n < 2^(p + 1)

MaxOf(S) == Max(S \union {0})

simple_gvar_abbr(md) ==
    <<LITERAL(7),
      FIXED(util_logbase2(MaxOf({g.type : g \in ToSet(md.gvars)})) + 1),
      VBR(6), VBR(6), FIXED(5),
      FIXED(util_logbase2(MaxOf({g.align : g \in ToSet(md.gvars)})) + 1),
      LITERAL(0)>>

(* A gvar is constant exactly when it has an initializer (add_gvar).       *)
HasInit(g) == g.init # <<>>

emit_module_info_global(s, md, g) ==
    emit_record_abbrev(s, 4, simple_gvar_abbr(md),
        <<7, g.type, 4 * g.as + 2 + (IF HasInit(g) THEN 1 ELSE 0),
          IF HasInit(g) THEN global_id(md, g.init) + 1 ELSE 0,
          IF HasInit(g) THEN 3 ELSE 0, util_logbase2(g.align) + 1, 0>>)

emit_module_info_function(s, f) ==
    emit_record(s, 8, <<f.type, 0, IF f.decl THEN 1 ELSE 0, 0, f.attr_set,
                        0, 0, 0, 0, 0, 0, 0, 0, 0, 0>>)

emit_target_triple(s) == emit_record(s, 2, Triple)

emit_datalayout(s) == emit_record(s, 3, Datalayout)

emit_module_info(s, md) ==
    LET a == define_abbrev(emit_datalayout(emit_target_triple(s)),
                           simple_gvar_abbr(md))
        Global(x, g) == emit_module_info_global(x, md, g)
    IN  EmitEach(emit_module_info_function, EmitEach(Global, a, md.gvars),
                 md.funcs)

encode_signed(value) == IF value >= 0 THEN 2 * value ELSE 2 * (-value) + 1

(* The value of a constant: an undef, a number (a float is its bits), or   *)
(* the constants an array or struct is made of                             *)
emit_const(s, md, c) ==
    CASE c.kind = "undef" -> emit_record(s, 3, <<>>)
      [] c.kind \in {"int", "float"} /\ c.value = 0 -> emit_record(s, 2, <<>>)
      [] c.kind = "int" /\ c.value # 0 ->
            Packed(s, const_abbrevs, 2, <<4, encode_signed(c.value)>>)
      [] c.kind = "float" /\ c.value # 0 -> emit_record(s, 6, <<c.value>>)
      [] c.kind = "aggregate" ->
            emit_record(s, 7, [i \in DOMAIN c.value |-> global_id(md, c.value[i])])

(* The type is only written when it differs from the one before.           *)
emit_consts(s, md) ==
    LET Settled(i) == i > 1 /\ md.consts[i - 1].type = md.consts[i].type
        One(t, i) == emit_const(IF Settled(i) THEN t
                                ELSE Packed(t, const_abbrevs, 1,
                                            <<1, md.consts[i].type>>),
                                md, md.consts[i])
    IN  EmitEach(One, s, [i \in DOMAIN md.consts |-> i])

(* The table's own abbreviations follow the ones of BLOCKINFO.             *)
emit_module_consts(s, md) ==
    exit_block(emit_consts(define_abbrevs(enter_subblock(s, CONST_BLOCK, 4),
                                          module_const_abbrevs), md))
-----------------------------------------------------------------------------
emit_mdnode(s, md, n) ==
    CASE n.kind = "string" -> Packed(s, metadata_abbrevs, 1, <<1>> \o n.text)
      [] n.kind = "value" -> emit_record(s, 2, <<n.type, global_id(md, n.value)>>)
      [] n.kind = "node" -> emit_record(s, 3, n.subnodes)

(* Node ids start at 1, 0 being the null node; named nodes hold id - 1.    *)
emit_metadata_named_node(s, n) ==
    emit_record(Packed(s, metadata_abbrevs, 2, <<4>> \o n.name), 10,
                [i \in DOMAIN n.subnodes |-> n.subnodes[i] - 1])

emit_metadata(s, md) ==
    LET a == define_abbrevs(enter_subblock(s, METADATA_BLOCK, 3), metadata_abbrevs)
        Node(t, n) == emit_mdnode(t, md, n)
    IN  exit_block(EmitEach(emit_metadata_named_node,
                            EmitEach(Node, a, md.mdnodes), md.named))

is_char7_string(name) == \A i \in DOMAIN name : name[i] < 128

SymtabAbbrev(name) == IF is_char6_string(name) THEN 3
                      ELSE IF is_char7_string(name) THEN 2 ELSE 1

emit_symtab_entry(s, value, name) ==
    Packed(s, value_symtab_abbrevs, SymtabAbbrev(name), <<1, value>> \o name)

emit_value_symbol_table(s, md) ==
    LET Func(t, i) == emit_symtab_entry(t, global_id(md, <<"func", i>>),
                                        md.funcs[i].name)
        Gvar(t, i) == emit_symtab_entry(t, global_id(md, <<"gvar", i>>),
                                        md.gvars[i].name)
        f == EmitEach(Func, enter_subblock(s, VALUE_SYMTAB_BLOCK, 4),
                      [i \in DOMAIN md.funcs |-> i])
    IN  exit_block(EmitEach(Gvar, f, [i \in DOMAIN md.gvars |-> i]))
-----------------------------------------------------------------------------
(* An instruction has its operands `args', a type `type', and the numbers  *)
(* `imm' (opcode, predicate, flags, alignment...); a phi has a predecessor *)
(* for each operand and a branch its successors in `blocks', which the     *)
(* function maps to the ids of its basic blocks.  Most operands are        *)
(* written relative to the number of their own instruction i.              *)
Rels(md, def, i) ==
    [k \in DOMAIN def.instrs[i].args |->
        InstrId(md, def, i) - value_id(md, def, def.instrs[i].args[k])]

Blocks(def, in) == [k \in DOMAIN in.blocks |-> def.basic_block_ids[in.blocks[k]]]

(* The second number is the flags, which only some operations have.        *)
emit_binop(s, in, rels) ==
    IF in.imm[2] # 0 THEN Packed(s, func_abbrevs, 3, <<2>> \o rels \o in.imm)
    ELSE Packed(s, func_abbrevs, 2, <<2>> \o rels \o <<in.imm[1]>>)

emit_cmp(s, in, rels) == emit_record(s, 28, rels \o in.imm)

(* The condition, which is the first operand, is written last.             *)
emit_select(s, rels) == emit_record(s, 29, <<rels[2], rels[3], rels[1]>>)

emit_cast(s, in, rels) ==
    Packed(s, func_abbrevs, 4, <<3>> \o rels \o <<in.type>> \o in.imm)

(* The condition, if there is one, follows the one or two successors.      *)
emit_branch(s, def, in, rels) == emit_record(s, 11, Blocks(def, in) \o rels)

(* An incoming value may be defined later, so its distance has a sign.     *)
emit_phi(s, def, in, rels) ==
    emit_record(s, 16, <<in.type>> \o FlattenSeq(
        [k \in DOMAIN rels |-> <<encode_signed(rels[k]), Blocks(def, in)[k]>>]))

emit_extractval(s, in, rels) == emit_record(s, 26, rels \o in.imm)

(* The callee is the first operand; 2^15 marks the explicit function type. *)
emit_call(s, in, rels) == emit_record(s, 34, <<0, 2^15, in.type>> \o rels)

(* Only dxil_emit_ret_void makes returns, so there is never a value.       *)
emit_ret(s) == Packed(s, func_abbrevs, 5, <<10>>)

(* The size, alone among the operands, is written with its absolute number.*)
emit_alloca(s, in, size) ==
    emit_record(s, 19, <<in.type, in.imm[1], size, in.imm[2]>>)

emit_gep(s, in, rels) ==
    Packed(s, func_abbrevs, 8, <<43>> \o in.imm \o <<in.type>> \o rels)

emit_load(s, in, rels) == emit_record(s, 20, rels \o <<in.type>> \o in.imm)

emit_store(s, in, rels) == emit_record(s, 44, rels \o in.imm)

emit_cmpxchg(s, in, rels) == emit_record(s, 37, rels \o in.imm)

emit_atomicrmw(s, in, rels) == emit_record(s, 38, rels \o in.imm)

emit_instr(s, md, def, i) ==
    LET in == def.instrs[i]
        rels == Rels(md, def, i)
    IN  CASE in.op = "binop" -> emit_binop(s, in, rels)
          [] in.op = "cmp" -> emit_cmp(s, in, rels)
          [] in.op = "select" -> emit_select(s, rels)
          [] in.op = "cast" -> emit_cast(s, in, rels)
          [] in.op = "br" -> emit_branch(s, def, in, rels)
          [] in.op = "phi" -> emit_phi(s, def, in, rels)
          [] in.op = "call" -> emit_call(s, in, rels)
          [] in.op = "ret" -> emit_ret(s)
          [] in.op = "extractval" -> emit_extractval(s, in, rels)
          [] in.op = "alloca" -> emit_alloca(s, in, value_id(md, def, in.args[1]))
          [] in.op = "gep" -> emit_gep(s, in, rels)
          [] in.op = "load" -> emit_load(s, in, rels)
          [] in.op = "store" -> emit_store(s, in, rels)
          [] in.op = "cmpxchg" -> emit_cmpxchg(s, in, rels)
          [] in.op = "atomicrmw" -> emit_atomicrmw(s, in, rels)

emit_function(s, md, def) ==
    LET b == emit_record(enter_subblock(s, FUNCTION_BLOCK, 4), 1,
                         <<def.curr_block>>)
        Instr(t, i) == emit_instr(t, md, def, i)
    IN  exit_block(EmitEach(Instr, b, [i \in DOMAIN def.instrs |-> i]))
-----------------------------------------------------------------------------
(* dxil_emit_module: a section, then the next one, unless it failed        *)
Emit(section, next, s) == /\ pc = section
                          /\ m' = s
                          /\ pc' = IF s.ok THEN next ELSE "failed"
                          /\ UNCHANGED <<mod, asked>>

Magic == <<Field(66, 8), Field(67, 8), Field(192, 8), Field(222, 8)>>

EmitHeader == Emit("header", "blockinfo",
                   emit_record(enter_subblock(EmitAll(m, Magic), MODULE_BLOCK, 3),
                               1, <<1>>))
EmitBlockinfo == Emit("blockinfo", "groups", emit_blockinfo(m))
EmitAttribGroups == Emit("groups", "attributes", emit_attrib_group_table(m, mod))
EmitAttributes == Emit("attributes", "types", emit_attribute_table(m, mod))
EmitTypes == Emit("types", "info", emit_type_table(m, mod))
EmitInfo == Emit("info", "consts", emit_module_info(m, mod))
EmitConsts == Emit("consts", "metadata", emit_module_consts(m, mod))
EmitMetadata == Emit("metadata", "symtab", emit_metadata(m, mod))
EmitSymtab == Emit("symtab", "functions", emit_value_symbol_table(m, mod))
EmitFunctions ==
    LET Function(s, def) == emit_function(s, mod, def)
    IN  Emit("functions", "end", EmitEach(Function, m, mod.defs))
EmitEnd == Emit("end", "done", exit_block(m))

Next == \/ Build /\ UNCHANGED m
        \/ EmitHeader \/ EmitBlockinfo \/ EmitAttribGroups \/ EmitAttributes
        \/ EmitTypes \/ EmitInfo \/ EmitConsts \/ EmitMetadata \/ EmitSymtab
        \/ EmitFunctions \/ EmitEnd

Spec == Init /\ [][Next]_vars
-----------------------------------------------------------------------------
TypeOK == /\ mod \in Modules \/ Cardinality(asked) <= MaxRequests
          /\ m.bits \in 0..32 * (m.limit + 1) - 1
          /\ m.abbrev_width \in 2..4
          /\ Len(m.blocks) \in 0..15
          /\ pc \in {"globals", "body", "annotate", "header", "blockinfo",
                     "groups", "attributes", "types", "info", "consts",
                     "metadata", "symtab", "functions", "end", "done",
                     "failed"}

(* Memory that runs out never yields a module: not even when it runs out   *)
(* at the reservation of a length word, whose failure enter_subblock does  *)
(* not report.  A module fails for no other reason, and a finished one has *)
(* left all its blocks.                                                    *)
NoPartialModule ==
    /\ pc = "done" => /\ ~ m.out_of_memory
                      /\ m.blocks = <<>> /\ m.abbrev_width = 2
                      /\ m.bits % 32 = 0
    /\ pc = "failed" => m.out_of_memory
    /\ (\E k \in DOMAIN m.blocks : m.blocks[k].offset = -1) => m.out_of_memory

(* A reader that knows the format but none of the writer's tables gets     *)
(* back exactly the blocks and records that were asked for: abbreviation   *)
(* ids, widths and block lengths agree along the whole stream.             *)
ReaderAgrees ==
    pc = "done" => LET r == ReadModule(m.fields)
                   IN  ~ r.bad /\ Len(r.open) = 1 /\ r.read = m.asked
-----------------------------------------------------------------------------
(* What the records mean to a consumer.  Entry i of a read module: the     *)
(* block it is in (blocks nest two deep) and, in a function block, which.  *)
IsMark(e) == "enter" \in DOMAIN e \/ "exit" \in DOMAIN e

Located(read) ==
    LET at[i \in 0..Len(read)] ==
            IF i = 0 THEN [block |-> -1, body |-> 0]
            ELSE IF "enter" \in DOMAIN read[i]
            THEN [block |-> read[i].enter,
                  body |-> at[i - 1].body
                           + IF read[i].enter = FUNCTION_BLOCK THEN 1 ELSE 0]
            ELSE IF "exit" \in DOMAIN read[i]
            THEN [at[i - 1] EXCEPT !.block = MODULE_BLOCK]
            ELSE at[i - 1]
    IN  [i \in DOMAIN read |-> [at |-> at[i], entry |-> read[i]]]

(* The records of a block, in order, without the ones in Skip              *)
RecordsIn(located, block, body, Skip) ==
    LET there == SelectSeq(located, LAMBDA l : /\ ~ IsMark(l.entry)
                                               /\ l.at.block = block
                                               /\ body \in {0, l.at.body}
                                               /\ l.entry.code \notin Skip)
    IN  [i \in DOMAIN there |-> there[i].entry]

WithCode(records, code) == SelectSeq(records, LAMBDA r : r.code = code)

Numbered(kind, records) == [i \in DOMAIN records |-> <<kind, i>>]

(* A consumer numbers the values in the order it meets them.               *)
GlobalValues(l) ==
    LET info == RecordsIn(l, MODULE_BLOCK, 0, {})
    IN  Numbered("gvar", WithCode(info, 7)) \o Numbered("func", WithCode(info, 8))
        \o Numbered("const", RecordsIn(l, CONST_BLOCK, 0, {1}))

ReturnsVoid(function_type) ==
    mod.types[mod.types[function_type + 1].ret + 1].kind = "void"

(* A store, a branch, a return and a call of a void function have no value *)
DefinesValue(r) == /\ r.code \notin {44, 11, 10}
                   /\ r.code = 34 => ~ ReturnsVoid(r.data[3])

DecodeSigned(v) == IF v % 2 = 0 THEN v \div 2 ELSE -(v \div 2)

(* The numbers of the operands of a record whose own number is n, in the   *)
(* order of the instruction's args                                         *)
OperandNumbers(r, n) ==
    LET Back(ks) == [k \in DOMAIN ks |-> n - r.data[ks[k]]]
        From(k) == [i \in 1..Len(r.data) - k + 1 |-> n - r.data[k + i - 1]]
    IN  CASE r.code \in {2, 28, 44, 38} -> Back(<<1, 2>>)
          [] r.code = 29 -> Back(<<3, 1, 2>>)
          [] r.code \in {3, 26, 20} -> Back(<<1>>)
          [] r.code = 37 -> Back(<<1, 2, 3>>)
          [] r.code = 11 -> IF Len(r.data) = 3 THEN Back(<<3>>) ELSE <<>>
          [] r.code = 34 -> From(4)
          [] r.code = 43 -> From(3)
          [] r.code = 19 -> <<r.data[3]>>
          [] r.code = 10 -> <<>>
          [] r.code = 16 -> [i \in 1..Len(r.data) \div 2 |->
                                n - DecodeSigned(r.data[2 * i])]

BodyResolves(l, k) ==
    LET records == RecordsIn(l, FUNCTION_BLOCK, k, {1})
        Defining == {i \in DOMAIN records : DefinesValue(records[i])}
        globals == GlobalValues(l)
        NumberAt(i) == Len(globals) + Cardinality({j \in Defining : j < i})
        Meant(n) == IF n < Len(globals) THEN globals[n + 1]
                    ELSE <<"instr", CHOOSE i \in Defining : NumberAt(i) = n>>
        Known(n) == n >= 0 /\ n < Len(globals) + Cardinality(Defining)
    IN  /\ Len(records) = Len(mod.defs[k].instrs)
        /\ \A i \in DOMAIN records :
              LET ns == OperandNumbers(records[i], NumberAt(i))
              IN  /\ \A o \in DOMAIN ns : Known(ns[o])
                  /\ [o \in DOMAIN ns |-> Meant(ns[o])]
                        = mod.defs[k].instrs[i].args

GlobalsResolve(l) ==
    LET globals == GlobalValues(l)
        inits == WithCode(RecordsIn(l, MODULE_BLOCK, 0, {}), 7)
        aggregates == RecordsIn(l, CONST_BLOCK, 0, {1})
        mdvalues == WithCode(RecordsIn(l, METADATA_BLOCK, 0, {}), 2)
        nodes == SelectSeq(mod.mdnodes, LAMBDA n : n.kind = "value")
        symbols == RecordsIn(l, VALUE_SYMTAB_BLOCK, 0, {})
        NameOf(v) == IF v[1] = "func" THEN mod.funcs[v[2]].name
                                      ELSE mod.gvars[v[2]].name
        Known(n) == n + 1 \in DOMAIN globals
    IN  /\ \A i \in DOMAIN inits :
              LET n == inits[i].data[3]
              IN  mod.gvars[i].init = IF n = 0 THEN <<>> ELSE globals[n]
        /\ \A i \in DOMAIN aggregates : aggregates[i].code = 7 =>
              [j \in DOMAIN aggregates[i].data |->
                  globals[aggregates[i].data[j] + 1]] = mod.consts[i].value
        /\ \A i \in DOMAIN mdvalues :
              globals[mdvalues[i].data[2] + 1] = nodes[i].value
        /\ \A i \in DOMAIN symbols :
              /\ Known(symbols[i].data[1])
              /\ NameOf(globals[symbols[i].data[1] + 1]) = Tail(symbols[i].data)

(* Every reference leads a consumer, who numbers the values as it reads    *)
(* them, to the value the compiler meant: operands relative to their       *)
(* instruction (also behind instructions without a value, across branches  *)
(* and forward in a phi), initializers, aggregates, metadata and names.    *)
ReferencesResolve ==
    pc = "done" =>
       LET l == Located(ReadModule(m.fields).read)
       IN  /\ GlobalsResolve(l)
           /\ \A k \in DOMAIN mod.defs : BodyResolves(l, k)
=============================================================================
