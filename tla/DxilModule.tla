------------------------------ MODULE DxilModule ------------------------------
(***************************************************************************)
(* The dxil_module that nir_to_dxil builds (mesa/src/microsoft/compiler/   *)
(* dxil_module.c and dxil_function.c): lists of types, constants, globals, *)
(* functions, attribute sets and metadata nodes.  Most of its functions    *)
(* look for an equal entry first and make one only when there is none, as  *)
(* the rest of the compiler compares entries by address.                   *)
(*                                                                         *)
(* Types and metadata nodes are named by their ids, values as <<"const",   *)
(* i>>, <<"func", i>>, <<"gvar", i>> or <<"instr", i>>, the i-th of its    *)
(* list.  A function below takes the module and returns it with an answer. *)
(* Names are short sequences of codes; running out of memory is left out.  *)
(***************************************************************************)
EXTENDS Integers, Sequences, FiniteSets, SequencesExt

CONSTANTS
    Predefined,  \* predefined_funcs: name -> [ret, params, attr]
    Overloads,   \* the overload types in use, of the types below
    Ints, Floats,           \* constants asked for, as <<bits, value>>
    ResTypes,    \* resource types asked for: [name, comp, num]
    Bindings,    \* resource bindings asked for: [lower, upper, space, class]
    NegZero,     \* the bits of -0.0
    NaNs,        \* the <<bits, value>> that are not a number
    MaxRequests, \* bound on the calls that build a module
    MaxCalls,    \* bound on the call instructions of a body
    MaxWritten   \* bound on the calls of a module that is then written

VARIABLES
    mod,         \* the dxil_module
    asked,       \* the calls made so far, with their answers
    pc           \* where nir_to_dxil is

EmptyModule == [types |-> <<>>, gvars |-> <<>>, funcs |-> <<>>,
                consts |-> <<>>, defs |-> <<>>, attrs |-> <<>>,
                mdnodes |-> <<>>, named |-> <<>>, functions |-> {}]

Answer(md, a) == [md |-> md, is |-> a]

Places(list, e) == {i \in DOMAIN list : list[i] = e}
First(S) == CHOOSE i \in S : \A j \in S : i <= j

(* The answers of Call for the members of a sequence, one after the other. *)
Each(Call(_, _), md, seq) ==
    LET made[i \in 0 .. Len(seq)] ==
          IF i = 0 THEN Answer(md, <<>>)
          ELSE LET c == Call(made[i-1].md, seq[i])
               IN  Answer(c.md, Append(made[i-1].is, c.is))
    IN  made[Len(seq)]
-----------------------------------------------------------------------------
(* Types.                                                                  *)
Void == [kind |-> "void"]
IntType(bits) == [kind |-> "int", bits |-> bits]
FloatType(bits) == [kind |-> "float", bits |-> bits]

create_type(md, t) ==
    Answer([md EXCEPT !.types = Append(@, t)], Len(md.types))

(* Mutant: a struct is made again when there is one under its name.        *)
GetTypeAnew(md, t) ==
    IF t.kind # "struct" /\ Places(md.types, t) # {}
    THEN Answer(md, First(Places(md.types, t)) - 1)
    ELSE create_type(md, t)

(* The void, int and float types, kept in fields of the module, and the    *)
(* pointers, structs, arrays and vectors, looked for in the list.          *)
get_type(md, t) ==
    IF Places(md.types, t) # {}
    THEN Answer(md, First(Places(md.types, t)) - 1)
    ELSE create_type(md, t)

dxil_module_get_pointer_type(md, t) ==
    get_type(md, [kind |-> "pointer", target |-> t])

dxil_module_get_struct_type(md, name, elems) ==
    get_type(md, [kind |-> "struct", name |-> name, elems |-> elems])

(* A function type is made for every call, also when there is an equal one.*)
dxil_module_add_function_type(md, ret, args) ==
    create_type(md, [kind |-> "function", ret |-> ret, args |-> args])

(* The structs that the letters of a function description stand for: name  *)
(* and scalar fields.                                                      *)
Suffix(ov) == IF ov = Void THEN <<>>
              ELSE <<46, IF ov.kind = "int" THEN 105 ELSE 102,
                    48 + ov.bits \div 8>>

Ints32(n) == [i \in 1 .. n |-> IntType(32)]

StructOf(letter, ov) ==
    CASE letter = "B" -> [name |-> <<66>> \o Suffix(ov),
                          elems |-> [i \in 1 .. 128 \div ov.bits |-> ov]]
      [] letter = "R" -> [name |-> <<82>> \o Suffix(ov),
                          elems |-> <<ov, ov, ov, ov, IntType(32)>>]
      [] letter = "D" -> [name |-> <<68>>, elems |-> Ints32(4)]
      [] letter = "F" -> [name |-> <<70>>, elems |-> Ints32(4)]
      [] letter = "G" -> [name |-> <<71>>, elems |-> Ints32(2)]
      [] letter = "P" -> [name |-> <<80>>, elems |-> Ints32(2)]
      [] letter = "S" -> [name |-> <<83>>,
                          elems |-> <<FloatType(32), FloatType(32)>>]
      [] letter = "#" -> [name |-> <<78>>, elems |-> Ints32(3) \o <<IntType(8)>>]

ScalarOf(letter, ov) ==
    CASE letter = "v" -> Void
      [] letter = "b" -> IntType(1)
      [] letter = "c" -> IntType(8)
      [] letter = "h" -> IntType(16)
      [] letter = "i" -> IntType(32)
      [] letter = "l" -> IntType(64)
      [] letter = "e" -> FloatType(16)
      [] letter = "f" -> FloatType(32)
      [] letter = "g" -> FloatType(64)
      [] letter = "O" -> ov

Structs == {"B", "D", "F", "G", "P", "R", "S", "#"}

Letters == Structs \union {"@", "v", "b", "c", "h", "i", "l", "e", "f", "g", "O"}

Scalars == {Void} \union {IntType(bits) : bits \in {1, 8, 16, 32, 64}}
                  \union {FloatType(bits) : bits \in {16, 32, 64}}

(* The descriptions consist of the letters that get_type_from_string knows;*)
(* overloads and components of resources are numbers; a constant that is   *)
(* asked for has a width and a value.                                      *)
ASSUME DescriptionsAreSpelled ==
    /\ \A name \in DOMAIN Predefined : /\ Predefined[name].ret \in Letters
                                      /\ Predefined[name].params \in Seq(Letters)
    /\ Overloads \subseteq Scalars
    /\ \A r \in ResTypes : r.comp \in Scalars
    /\ \A v \in Floats : v = <<v[1], v[2]>>

GetStruct(md, s) ==
    LET e == Each(get_type, md, s.elems)
    IN  dxil_module_get_struct_type(e.md, s.name, e.is)

dxil_module_get_handle_type(md) ==
    LET int8 == get_type(md, IntType(8))
        ptr == dxil_module_get_pointer_type(int8.md, int8.is)
    IN  dxil_module_get_struct_type(ptr.md, <<72>>, <<ptr.is>>)

get_type_from_string(md, letter, ov) ==
    IF letter = "@" THEN dxil_module_get_handle_type(md)
    ELSE IF letter \in Structs THEN GetStruct(md, StructOf(letter, ov))
    ELSE get_type(md, ScalarOf(letter, ov))

(* A resource is a struct of its component type or of a vector of it.      *)
dxil_module_get_res_type(md, r) ==
    LET c == get_type(md, r.comp)
        v == IF r.num = 1 THEN c
             ELSE get_type(c.md, [kind |-> "vector", num |-> r.num,
                                  elem |-> c.is])
    IN  dxil_module_get_struct_type(v.md, r.name, <<v.is>>)
-----------------------------------------------------------------------------
(* Constants.                                                              *)
Const(i) == <<"const", i>>

create_const(md, c) ==
    Answer([md EXCEPT !.consts = Append(@, c)], Const(Len(md.consts) + 1))

get_const(md, c) ==
    IF Places(md.consts, c) # {}
    THEN Answer(md, Const(First(Places(md.consts, c))))
    ELSE create_const(md, c)

get_int_const(md, bits, v) ==
    LET t == get_type(md, IntType(bits))
    IN  get_const(t.md, [type |-> t.is, kind |-> "int", value |-> v])

(* The comparison == of two floats or doubles: zeros are equal whatever    *)
(* their sign, and a NaN equals nothing, itself included.  Half floats are *)
(* integers here and compare bits.                                         *)
IsNaN(bits, v) == bits # 16 /\ <<bits, v>> \in NaNs

FloatsEqual(bits, v, w) ==
    /\ ~ IsNaN(bits, v) /\ ~ IsNaN(bits, w)
    /\ v = w \/ (bits # 16 /\ {v, w} = {0, NegZero})

SameFloat(c, t, bits, v) ==
    c.type = t /\ c.kind # "undef" /\ FloatsEqual(bits, c.value, v)

dxil_module_get_float_const(md, bits, v) ==
    LET t == get_type(md, FloatType(bits))
        same == {i \in DOMAIN md.consts :
                    SameFloat(md.consts[i], t.is, bits, v)}
    IN  IF same # {} THEN Answer(t.md, Const(First(same)))
        ELSE create_const(t.md, [type |-> t.is, kind |-> "float", value |-> v])

dxil_module_get_undef(md, t) ==
    get_const(md, [type |-> t, kind |-> "undef", value |-> 0])

(* Arrays, vectors and structs of constants, compared member by member.    *)
get_aggregate_const(md, t, values) ==
    get_const(md, [type |-> t, kind |-> "aggregate", value |-> values])

IntConst(md, v) == get_int_const(md, v[1], v[2])

Numbers(b) == <<<<32, b.lower>>, <<32, b.upper>>, <<32, b.space>>, <<8, b.class>>>>

dxil_module_get_res_bind_const(md, b) ==
    LET t == GetStruct(md, StructOf("#", Void))
        e == Each(IntConst, t.md, Numbers(b))
    IN  get_aggregate_const(e.md, t.is, e.is)
-----------------------------------------------------------------------------
(* Globals, functions and their attributes.                                *)
NO_UNWIND == 18
NONE == 0
EnumAttr(kind) == [type |-> 0, kind |-> kind]

(* Mutant: the index of a new set is the one of the set before it.         *)
AttrSetOffByOne(md, set) ==
    IF Places(md.attrs, set) # {} THEN Answer(md, First(Places(md.attrs, set)))
    ELSE Answer([md EXCEPT !.attrs = Append(@, set)], Len(md.attrs))

(* The index counts from 1, as 0 stands for no attributes.                 *)
AttrSet(md, set) ==
    IF Places(md.attrs, set) # {} THEN Answer(md, First(Places(md.attrs, set)))
    ELSE Answer([md EXCEPT !.attrs = Append(@, set)], Len(md.attrs) + 1)

get_attr_set(md, attr) ==
    AttrSet(md, IF attr = NONE THEN <<EnumAttr(NO_UNWIND)>>
                ELSE <<EnumAttr(NO_UNWIND), EnumAttr(attr)>>)

dxil_get_string_attr_set(md, keys) ==
    IF keys = <<>> THEN Answer(md, 0)
    ELSE AttrSet(md, [i \in DOMAIN keys |-> [type |-> 3, key |-> keys[i]]])

add_function(md, name, type, decl, attr_set) ==
    Answer([md EXCEPT !.funcs = Append(@, [name |-> name, type |-> type,
                                           decl |-> decl,
                                           attr_set |-> attr_set])],
           <<"func", Len(md.funcs) + 1>>)

add_gvar(md, name, type, align, init) ==
    Answer([md EXCEPT !.gvars = Append(@, [name |-> name, type |-> type,
                                           as |-> 3, align |-> align,
                                           init |-> init])],
           <<"gvar", Len(md.gvars) + 1>>)

(* dxil_add_global_ptr_var: the value is a pointer to the type.            *)
dxil_add_global_ptr_var(md, name, type, align, init) ==
    add_gvar(dxil_module_get_pointer_type(md, type).md, name, type, align, init)

FullName(name, ov) == <<name>> \o Suffix(ov)

(* dxil_alloc_func: the type of the result, of the parameters, the         *)
(* function, its attributes, and the entry in the tree of functions.       *)
dxil_alloc_func(md, name, ov, ret, params, attr) ==
    LET TypeOf(n, letter) == get_type_from_string(n, letter, ov)
        e == Each(TypeOf, md, <<ret>> \o params)
        t == dxil_module_add_function_type(e.md, Head(e.is), Tail(e.is))
        a == get_attr_set(t.md, attr)
        f == add_function(a.md, FullName(name, ov), t.is, TRUE, a.is)
    IN  Answer([f.md EXCEPT !.functions =
                  @ \union {[name |-> name, overload |-> ov, func |-> f.is]}],
               f.is)

(* Mutant: the overload is not a part of the key.                          *)
GetFunctionByName(md, name, ov) ==
    LET known == {f \in md.functions : f.name = name}
        p == Predefined[name]
    IN  IF known # {} THEN Answer(md, (CHOOSE f \in known : TRUE).func)
        ELSE dxil_alloc_func(md, name, ov, p.ret, p.params, p.attr)

dxil_get_function(md, name, ov) ==
    LET known == {f \in md.functions : f.name = name /\ f.overload = ov}
        p == Predefined[name]
    IN  IF known # {} THEN Answer(md, (CHOOSE f \in known : TRUE).func)
        ELSE dxil_alloc_func(md, name, ov, p.ret, p.params, p.attr)

(* The entry point: its type, its attributes, and an empty body.           *)
dxil_add_function_def(md, name, keys) ==
    LET v == get_type(md, Void)
        t == dxil_module_add_function_type(v.md, v.is, <<>>)
        a == dxil_get_string_attr_set(t.md, keys)
        f == add_function(a.md, name, t.is, FALSE, a.is)
    IN  Answer([f.md EXCEPT !.defs =
                  Append(@, [instrs |-> <<>>, curr_block |-> 0,
                             basic_block_ids |-> <<-1>>])], f.is)

(* The body under construction is the last one.                            *)
create_instr(md, in) ==
    LET n == Len(md.defs)
    IN  Answer([md EXCEPT !.defs[n].instrs = Append(@, in)],
               <<"instr", Len(md.defs[n].instrs) + 1>>)

(* dxil_emit_call and dxil_emit_call_void, here on undefined arguments.    *)
EmitCall(md, f) ==
    LET t == md.funcs[f[2]].type
        ty == md.types[t + 1]
        a == Each(dxil_module_get_undef, md, ty.args)
    IN  create_instr(a.md, [op |-> "call", args |-> <<f>> \o a.is,
                            type |-> t, imm |-> <<>>, blocks |-> <<>>,
                            has_value |-> md.types[ty.ret + 1] # Void])

dxil_emit_ret_void(md) ==
    LET v == get_type(md, Void)
        r == create_instr(v.md, [op |-> "ret", args |-> <<>>, type |-> v.is,
                                 imm |-> <<>>, blocks |-> <<>>,
                                 has_value |-> FALSE])
    IN  Answer([r.md EXCEPT !.defs[Len(md.defs)].curr_block = @ + 1], r.is)
-----------------------------------------------------------------------------
(* Metadata; ids start at 1, as 0 stands for the null node.                *)
get_mdnode(md, n) ==
    IF Places(md.mdnodes, n) # {} THEN Answer(md, First(Places(md.mdnodes, n)))
    ELSE Answer([md EXCEPT !.mdnodes = Append(@, n)], Len(md.mdnodes) + 1)

dxil_get_metadata_string(md, text) ==
    get_mdnode(md, [kind |-> "string", text |-> text])

dxil_get_metadata_value(md, type, value) ==
    get_mdnode(md, [kind |-> "value", type |-> type, value |-> value])

dxil_get_metadata_func(md, f) ==
    LET p == dxil_module_get_pointer_type(md, md.funcs[f[2]].type)
    IN  dxil_get_metadata_value(p.md, p.is, f)

dxil_get_metadata_int(md, bits, v) ==
    LET c == get_int_const(md, bits, v)
        t == get_type(c.md, IntType(bits))
    IN  dxil_get_metadata_value(c.md, t.is, c.is)

dxil_get_metadata_node(md, subnodes) ==
    get_mdnode(md, [kind |-> "node", subnodes |-> subnodes])

dxil_add_metadata_named_node(md, name, subnode) ==
    [md EXCEPT !.named = Append(@, [name |-> name, subnodes |-> <<subnode>>])]

(* A node of a sequence of strings, 32 bit numbers and nodes made before.  *)
Item(md, i) == CASE i[1] = "string" -> dxil_get_metadata_string(md, i[2])
                 [] i[1] = "int" -> dxil_get_metadata_int(md, 32, i[2])
                 [] i[1] = "func" -> dxil_get_metadata_func(md, i)
                 [] i[1] = "node" -> Answer(md, i[2])

NodeOf(md, items) == LET e == Each(Item, md, items)
                     IN  dxil_get_metadata_node(e.md, e.is)

AddNamed(md, node) ==
    LET n == NodeOf(md, node.items)
    IN  Answer(dxil_add_metadata_named_node(n.md, node.name, n.is), n.is)

(* emit_metadata of nir_to_dxil, for a compute shader without resources,   *)
(* signatures and flags: identification, versions and shader model, then   *)
(* the annotation of the entry point, its threads, and the entry point.    *)
Identification ==
    <<[name |-> <<105>>, items |-> <<<<"string", <<77, 32>>>>>>],
      [name |-> <<118>>, items |-> <<<<"int", 1>>, <<"int", 0>>>>],
      [name |-> <<119>>, items |-> <<<<"int", 1>>, <<"int", 4>>>>],
      [name |-> <<109>>, items |-> <<<<"string", <<99, 115>>>>, <<"int", 6>>,
                                     <<"int", 0>>>>]>>

(* The node that is made by a call, as an item of another one.             *)
ItemOf(n) == <<"node", n.is>>

(* The properties of a function without parameters, and the annotation of  *)
(* the entry point.                                                        *)
node28(node27) ==
    NodeOf(node27.md, <<<<"int", 0>>, ItemOf(node27), ItemOf(node27)>>)

node29(n) == NodeOf(n.md, <<ItemOf(n)>>)

annotate_type(main_entrypoint, properties) ==
    NodeOf(properties.md,
           <<<<"int", 1>>, ItemOf(main_entrypoint), ItemOf(properties)>>)

main_type_annotation(main_entrypoint) ==
    annotate_type(main_entrypoint,
                  node29(node28(NodeOf(main_entrypoint.md, <<>>))))

(* The properties of a compute shader: its threads, with the tag 4.        *)
emit_threads(md) == NodeOf(md, <<<<"int", 1>>, <<"int", 1>>, <<"int", 1>>>>)

shader_properties(n) == NodeOf(n.md, <<<<"int", 4>>, ItemOf(n)>>)

(* The node of the entry point f, without signatures and resources.        *)
emit_entrypoint(f, shader_props) ==
    NodeOf(shader_props.md,
           <<f, <<"string", shader_props.md.funcs[f[2]].name>>,
             <<"node", 0>>, <<"node", 0>>, ItemOf(shader_props)>>)

add_named_nodes(type_annotation, dx_entry_point) ==
    dxil_add_metadata_named_node(
        dxil_add_metadata_named_node(dx_entry_point.md, <<116>>,
                                     type_annotation.is),
        <<101>>, dx_entry_point.is)

emit_entry_nodes(f, type_annotation) ==
    add_named_nodes(
        type_annotation,
        emit_entrypoint(f, shader_properties(emit_threads(type_annotation.md))))

nir_emit_metadata(md, f) ==
    emit_entry_nodes(f, main_type_annotation(
                            Item(Each(AddNamed, md, Identification).md, f)))
-----------------------------------------------------------------------------
(* nir_to_dxil asks for what the shader needs: globals first, then the     *)
(* functions with their calls, then the metadata.                          *)
Lookups == [call : {"function"}, name : DOMAIN Predefined, overload : Overloads]
           \union [call : {"int"}, of : Ints]
           \union [call : {"float"}, of : Floats]
           \union [call : {"res_type"}, of : ResTypes]
           \union [call : {"res_bind"}, of : Bindings]

(* A predefined function has an overload exactly when its types use one.   *)
Overloaded(name) ==
    {"O", "B", "R"} \intersect
        ({Predefined[name].ret} \union ToSet(Predefined[name].params)) # {}

Sensible(req) ==
    req.call = "function" => (Overloaded(req.name) <=> req.overload # Void)

Look(md, req) ==
    CASE req.call = "function" -> dxil_get_function(md, req.name, req.overload)
      [] req.call = "int" -> get_int_const(md, req.of[1], req.of[2])
      [] req.call = "float" ->
            dxil_module_get_float_const(md, req.of[1], req.of[2])
      [] req.call = "res_type" ->
            LET t == dxil_module_get_res_type(md, req.of)
            IN  Answer(t.md, <<"type", t.is>>)
      [] req.call = "res_bind" -> dxil_module_get_res_bind_const(md, req.of)

BuildInit == mod = EmptyModule /\ asked = {} /\ pc = "globals"

Building == pc \in {"globals", "body"} /\ Cardinality(asked) < MaxRequests

Ask(req) == /\ Building
            /\ Sensible(req)
            /\ mod' = Look(mod, req).md
            /\ asked' = asked \union {[req |-> req, is |-> Look(mod, req).is]}
            /\ UNCHANGED pc

(* emit_global_consts: an array of constants and a variable that holds it. *)
AddGlobal ==
    /\ pc = "globals" /\ mod.gvars = <<>> /\ Cardinality(asked) < MaxRequests
    /\ LET e == get_type(mod, IntType(32))
           t == get_type(e.md, [kind |-> "array", num |-> 2, elem |-> e.is])
           c == Each(IntConst, t.md, <<<<32, 7>>, <<32, 0>>>>)
           a == get_aggregate_const(c.md, t.is, c.is)
       IN  mod' = dxil_add_global_ptr_var(a.md, <<103>>, t.is, 16, a.is).md
    /\ UNCHANGED <<asked, pc>>

BeginFunction(keys) ==
    /\ pc = "globals"
    /\ mod' = dxil_add_function_def(mod, <<109>>, keys).md
    /\ pc' = "body"
    /\ UNCHANGED asked

Call(name, ov) ==
    /\ pc = "body"
    /\ [call |-> "function", name |-> name, overload |-> ov]
           \in {a.req : a \in asked}
    /\ \A d \in ToSet(mod.defs) : Len(d.instrs) < MaxCalls
    /\ LET f == dxil_get_function(mod, name, ov)
       IN  mod' = EmitCall(f.md, f.is).md
    /\ UNCHANGED <<asked, pc>>

EndFunction == /\ pc = "body" /\ Cardinality(asked) <= MaxWritten
               /\ mod' = dxil_emit_ret_void(mod).md
               /\ pc' = "annotate"
               /\ UNCHANGED asked

Main == CHOOSE i \in DOMAIN mod.funcs : ~ mod.funcs[i].decl

AddMetadata == /\ pc = "annotate"
               /\ mod' = nir_emit_metadata(mod, <<"func", Main>>)
               /\ pc' = "header"
               /\ UNCHANGED asked

Build == \/ \E req \in Lookups : Ask(req)
         \/ AddGlobal
         \/ \E keys \in {<<>>, <<<<102>>>>} : BeginFunction(keys)
         \/ \E name \in DOMAIN Predefined, ov \in Overloads : Call(name, ov)
         \/ EndFunction
         \/ AddMetadata
-----------------------------------------------------------------------------
AsksForNaN(req) == req.call = "float" /\ IsNaN(req.of[1], req.of[2])

(* A lookup that is made again, whatever was built in between, finds the   *)
(* entry it found before and adds nothing: the compiler compares types,    *)
(* functions and constants by address.  The one exception is a NaN, which  *)
(* no search by == finds: each request adds a copy of the constant made    *)
(* for the one before, and that is all it adds.                            *)
AnswersAreStable ==
    \A a \in asked :
       Look(mod, a.req) = IF AsksForNaN(a.req)
                          THEN create_const(mod, mod.consts[a.is[2]])
                          ELSE Answer(mod, a.is)

(* What an entry stands for, without ids.                                  *)
TypeTree(md, id) ==
    LET tree[i \in 0 .. id] ==
            LET t == md.types[i + 1]
                Trees(ids) == [k \in DOMAIN ids |-> tree[ids[k]]]
            IN  CASE t.kind = "pointer" -> [t EXCEPT !.target = tree[t.target]]
                  [] t.kind = "struct" -> [t EXCEPT !.elems = Trees(t.elems)]
                  [] t.kind \in {"array", "vector"} -> [t EXCEPT !.elem = tree[@]]
                  [] t.kind = "function" -> [t EXCEPT !.ret = tree[@],
                                                      !.args = Trees(t.args)]
                  [] OTHER -> t
    IN  tree[id]

Struct(s) == [kind |-> "struct", name |-> s.name, elems |-> s.elems]

TreeOf(letter, ov) ==
    IF letter = "@"
    THEN Struct([name |-> <<72>>,
                 elems |-> <<[kind |-> "pointer", target |-> IntType(8)]>>])
    ELSE IF letter \in Structs THEN Struct(StructOf(letter, ov))
    ELSE ScalarOf(letter, ov)

IsConst(md, v, type, value) ==
    /\ v[1] = "const"
    /\ TypeTree(md, md.consts[v[2]].type) = type
    /\ md.consts[v[2]].kind = type.kind
    /\ md.consts[v[2]].value = value

IsFunction(md, v, name, ov) ==
    LET f == md.funcs[v[2]]
        p == Predefined[name]
    IN  /\ v[1] = "func" /\ f.decl
        /\ f.name = FullName(name, ov)
        /\ TypeTree(md, f.type)
              = [kind |-> "function", ret |-> TreeOf(p.ret, ov),
                 args |-> [i \in DOMAIN p.params |-> TreeOf(p.params[i], ov)]]
        /\ md.attrs[f.attr_set] = <<EnumAttr(NO_UNWIND)>>
              \o (IF p.attr = NONE THEN <<>> ELSE <<EnumAttr(p.attr)>>)

IsBinding(md, v, b) ==
    LET c == md.consts[v[2]]
    IN  /\ TypeTree(md, c.type) = TreeOf("#", Void)
        /\ \A i \in 1 .. 4 : IsConst(md, c.value[i], IntType(Numbers(b)[i][1]),
                                    Numbers(b)[i][2])

IsResource(md, id, r) ==
    TypeTree(md, id) = Struct([name |-> r.name, elems |->
        <<IF r.num = 1 THEN r.comp
          ELSE [kind |-> "vector", num |-> r.num, elem |-> r.comp]>>])

(* Every lookup answers with what was asked for, also after later calls:   *)
(* the function of that name and overload with the types its description   *)
(* spells, the constant of that type and value, bit for bit.               *)
AnswersAreTrue ==
    \A a \in asked :
       CASE a.req.call = "function" ->
               IsFunction(mod, a.is, a.req.name, a.req.overload)
         [] a.req.call = "int" ->
               IsConst(mod, a.is, IntType(a.req.of[1]), a.req.of[2])
         [] a.req.call = "float" ->
               IsConst(mod, a.is, FloatType(a.req.of[1]), a.req.of[2])
         [] a.req.call = "res_type" -> IsResource(mod, a.is[2], a.req.of)
         [] a.req.call = "res_bind" -> IsBinding(mod, a.is, a.req.of)

RefersBack(t, i) ==
    CASE t.kind = "pointer" -> t.target < i
      [] t.kind = "struct" -> \A k \in DOMAIN t.elems : t.elems[k] < i
      [] t.kind \in {"array", "vector"} -> t.elem < i
      [] t.kind = "function" -> /\ t.ret < i
                                /\ \A k \in DOMAIN t.args : t.args[k] < i
      [] OTHER -> TRUE

(* A constant that is never found again                                    *)
IsNaNConst(md, c) ==
    c.kind = "float" /\ IsNaN(md.types[c.type + 1].bits, c.value)

Distinct(list, same(_)) ==
    \A i, j \in DOMAIN list : list[i] = list[j] => i = j \/ same(list[i])

(* A type, an aggregate and a node only refer to entries listed before     *)
(* them, an attribute number to a set there is, and no list has an entry   *)
(* twice, function types and NaN constants aside: an equal type at a       *)
(* second address fails the assertion of types_equal.                      *)
ListsAreSound ==
    LET No(e) == FALSE
        FunctionType(t) == t.kind = "function"
        NaN(c) == IsNaNConst(mod, c)
    IN  /\ \A i \in DOMAIN mod.types : RefersBack(mod.types[i], i - 1)
        /\ \A i \in DOMAIN mod.consts : mod.consts[i].kind = "aggregate" =>
              \A v \in ToSet(mod.consts[i].value) : v[1] = "const" /\ v[2] < i
        /\ \A i \in DOMAIN mod.mdnodes : mod.mdnodes[i].kind = "node" =>
              \A k \in ToSet(mod.mdnodes[i].subnodes) : k < i
        /\ \A f \in ToSet(mod.funcs) :
              f.attr_set \in (IF f.decl THEN 1 ELSE 0) .. Len(mod.attrs)
        /\ Distinct(mod.types, FunctionType)
        /\ Distinct(mod.consts, NaN)
        /\ Distinct(mod.mdnodes, No)
        /\ Distinct(mod.attrs, No)
-----------------------------------------------------------------------------
(* The building of a module alone; the writer that follows leaves it alone.*)
buildVars == <<mod, asked, pc>>

BuildStages == {"globals", "body", "annotate"}

Written == /\ pc \notin BuildStages /\ pc' \notin BuildStages
           /\ UNCHANGED <<mod, asked>>

BuildSpec == BuildInit /\ [][Build \/ Written]_buildVars
-----------------------------------------------------------------------------
(* The inductive invariant behind ListsAreSound, AnswersAreStable and      *)
(* AnswersAreTrue.                                                         *)

ModuleFields == {"types", "gvars", "funcs", "consts", "defs", "attrs",
                 "mdnodes", "named", "functions"}

Ids(md) == 0 .. Len(md.types) - 1

(* An entry with the n entries listed before it                            *)
RefersTo(t, n) ==
    /\ t.kind = "pointer" => t.target \in 0 .. n - 1
    /\ t.kind = "struct" => t.elems \in Seq(0 .. n - 1)
    /\ t.kind \in {"array", "vector"} => t.elem \in 0 .. n - 1
    /\ t.kind = "function" => t.ret \in 0 .. n - 1 /\ t.args \in Seq(0 .. n - 1)

TypesAreSound(md) ==
    /\ \A i \in 1 .. Len(md.types) : RefersTo(md.types[i], i - 1)
    /\ \A i, j \in 1 .. Len(md.types) :
          md.types[i] = md.types[j] => i = j \/ md.types[i].kind = "function"

(* A constant has the type of its kind; floats are the ones asked for.     *)
IsTyped(md, c, n) ==
    /\ c.type \in Ids(md)
    /\ c.kind \in {"int", "float", "undef", "aggregate"}
    /\ LET t == md.types[c.type + 1]
       IN  /\ c.kind = "int" => t.kind = "int"
           /\ c.kind = "float" => /\ t.kind = "float"
                                  /\ <<t.bits, c.value>> \in Floats
           /\ c.kind = "aggregate" =>
                 /\ t.kind \in {"struct", "array"}
                 /\ c.value \in Seq({Const(j) : j \in 1 .. n})

ConstsAreSound(md) ==
    /\ \A i \in 1 .. Len(md.consts) : IsTyped(md, md.consts[i], i - 1)
    /\ \A i, j \in 1 .. Len(md.consts) :
          md.consts[i] = md.consts[j] => i = j \/ IsNaNConst(md, md.consts[i])

NodesAreSound(md) ==
    /\ \A i \in 1 .. Len(md.mdnodes) :
          md.mdnodes[i].kind = "node" =>
             md.mdnodes[i].subnodes \in Seq(0 .. i - 1)
    /\ \A i, j \in 1 .. Len(md.mdnodes) : md.mdnodes[i] = md.mdnodes[j] => i = j

AttrsAreSound(md) ==
    \A i, j \in 1 .. Len(md.attrs) : md.attrs[i] = md.attrs[j] => i = j

IsFunctionType(md, id) ==
    id \in Ids(md) /\ md.types[id + 1].kind = "function"

FuncsAreSound(md) ==
    \A i \in 1 .. Len(md.funcs) :
       LET f == md.funcs[i]
       IN  /\ IsFunctionType(md, f.type)
           /\ f.attr_set \in (IF f.decl THEN 1 ELSE 0) .. Len(md.attrs)

(* The entry that answers a request, by what it refers to                  *)
HasType(md, t, id) == id \in Ids(md) /\ md.types[id + 1] = t

HasTypes(md, ts, ids) ==
    Len(ids) = Len(ts) /\ \A k \in 1 .. Len(ts) : HasType(md, ts[k], ids[k])

HasStruct(md, s, id) ==
    \E i \in 1 .. Len(md.types) :
       LET t == md.types[i]
       IN  /\ id = i - 1
           /\ t.kind = "struct"
           /\ t = [kind |-> "struct", name |-> s.name, elems |-> t.elems]
           /\ HasTypes(md, s.elems, t.elems)

HasHandle(md, id) ==
    \E b, p \in Ids(md) :
       /\ HasType(md, IntType(8), b)
       /\ HasType(md, [kind |-> "pointer", target |-> b], p)
       /\ HasType(md, [kind |-> "struct", name |-> <<72>>, elems |-> <<p>>], id)

HasResource(md, r, id) ==
    \E c, v \in Ids(md) :
       /\ HasType(md, r.comp, c)
       /\ IF r.num = 1 THEN v = c
          ELSE HasType(md, [kind |-> "vector", num |-> r.num, elem |-> c], v)
       /\ HasType(md, [kind |-> "struct", name |-> r.name, elems |-> <<v>>], id)

HasLetter(md, letter, ov, id) ==
    IF letter = "@" THEN HasHandle(md, id)
    ELSE IF letter \in Structs THEN HasStruct(md, StructOf(letter, ov), id)
    ELSE HasType(md, ScalarOf(letter, ov), id)

HasConst(md, c, v) == \E i \in 1 .. Len(md.consts) :
                         v = Const(i) /\ md.consts[i] = c

HasInt(md, bits, n, v) ==
    \E t \in Ids(md) : /\ HasType(md, IntType(bits), t)
                       /\ HasConst(md, [type |-> t, kind |-> "int", value |-> n], v)

(* A NaN has a constant of its own, another float the first one that is    *)
(* equal to it.                                                            *)
HasNaN(md, bits, n, v) ==
    \E t \in Ids(md) :
       /\ HasType(md, FloatType(bits), t)
       /\ HasConst(md, [type |-> t, kind |-> "float", value |-> n], v)

HasFirstFloat(md, bits, n, v) ==
    \E t \in Ids(md), i \in 1 .. Len(md.consts) :
       /\ HasType(md, FloatType(bits), t)
       /\ v = Const(i)
       /\ SameFloat(md.consts[i], t, bits, n)
       /\ \A j \in 1 .. i - 1 : ~ SameFloat(md.consts[j], t, bits, n)

HasFloat(md, bits, n, v) ==
    IF IsNaN(bits, n) THEN HasNaN(md, bits, n, v)
                      ELSE HasFirstFloat(md, bits, n, v)

HasBinding(md, b, v) ==
    \E i \in 1 .. Len(md.consts) :
       LET c == md.consts[i]
       IN  /\ v = Const(i)
           /\ c.kind = "aggregate"
           /\ c = [type |-> c.type, kind |-> "aggregate", value |-> c.value]
           /\ HasStruct(md, StructOf("#", Void), c.type)
           /\ Len(c.value) = 4
           /\ \A k \in 1 .. 4 : HasInt(md, Numbers(b)[k][1], Numbers(b)[k][2],
                                       c.value[k])

(* A declared function, with the types that its description spells         *)
IsPrototype(md, f, name, ov) ==
    LET t == md.types[f.type + 1]
        p == Predefined[name]
    IN  /\ name \in DOMAIN Predefined
        /\ f.decl = TRUE /\ f.name = FullName(name, ov)
        /\ t.kind = "function"
        /\ t = [kind |-> "function", ret |-> t.ret, args |-> t.args]
        /\ HasLetter(md, p.ret, ov, t.ret)
        /\ Len(t.args) = Len(p.params)
        /\ \A k \in 1 .. Len(p.params) :
              HasLetter(md, p.params[k], ov, t.args[k])
        /\ f.attr_set \in 1 .. Len(md.attrs)
        /\ md.attrs[f.attr_set] = <<EnumAttr(NO_UNWIND)>>
              \o (IF p.attr = NONE THEN <<>> ELSE <<EnumAttr(p.attr)>>)

PrototypesAreSound(md) ==
    /\ \A f \in md.functions : \E i \in 1 .. Len(md.funcs) :
          /\ f = [name |-> f.name, overload |-> f.overload,
                  func |-> <<"func", i>>]
          /\ IsPrototype(md, md.funcs[i], f.name, f.overload)
    /\ \A f, g \in md.functions :
          f.name = g.name /\ f.overload = g.overload => f = g

HasFunction(md, name, ov, v) ==
    [name |-> name, overload |-> ov, func |-> v] \in md.functions

IsSound(md) ==
    /\ DOMAIN md = ModuleFields
    /\ \A list \in {"types", "consts", "funcs", "attrs", "mdnodes"} :
          md[list] \in Seq(ToSet(md[list]))
    /\ TypesAreSound(md)
    /\ ConstsAreSound(md)
    /\ NodesAreSound(md)
    /\ AttrsAreSound(md)
    /\ FuncsAreSound(md)
    /\ PrototypesAreSound(md)

Knows(md, req, is) ==
    CASE req.call = "function" -> HasFunction(md, req.name, req.overload, is)
      [] req.call = "int" -> HasInt(md, req.of[1], req.of[2], is)
      [] req.call = "float" -> HasFloat(md, req.of[1], req.of[2], is)
      [] req.call = "res_type" ->
            is = <<"type", is[2]>> /\ HasResource(md, req.of, is[2])
      [] req.call = "res_bind" -> HasBinding(md, req.of, is)

HasMain == \E i \in 1 .. Len(mod.funcs) : ~ mod.funcs[i].decl

(* A module grows only at the end of its lists, whatever is asked of it,   *)
(* so that what an answer refers to stays what it was.                     *)
BuildInv ==
    /\ IsSound(mod)
    /\ \A a \in asked : /\ a.req \in Lookups /\ Sensible(a.req)
                        /\ Knows(mod, a.req, a.is)
    /\ pc \in {"body", "annotate"} => HasMain
=============================================================================
