-------------------------- MODULE MCDxilEmitModule --------------------------
(* Small instance of DxilEmitModule for TLC: every kind of type, constant,  *)
(* metadata node, attribute and instruction, values that need one and       *)
(* several groups of a VBR, names of six, seven and eight bits, one and two *)
(* function bodies, and memory that runs out in every section.              *)
EXTENDS DxilEmitModule

MCTypes ==
    <<[kind |-> "void"], [kind |-> "int", bits |-> 32],
      [kind |-> "float", bits |-> 32], [kind |-> "int", bits |-> 1],
      [kind |-> "pointer", target |-> 2],
      [kind |-> "struct", name |-> <<97, 46>>, elems |-> <<1, 2>>],
      [kind |-> "struct", name |-> <<97, 45>>, elems |-> <<1>>],
      [kind |-> "struct", name |-> <<>>, elems |-> <<>>],
      [kind |-> "array", num |-> 2, elem |-> 1],
      [kind |-> "function", ret |-> 0, args |-> <<>>],
      [kind |-> "function", ret |-> 1, args |-> <<1, 1>>],
      [kind |-> "array", num |-> 300, elem |-> 1],
      [kind |-> "vector", num |-> 4, elem |-> 2],
      [kind |-> "float", bits |-> 16], [kind |-> "float", bits |-> 64]>>

Func(i) == <<"func", i>>
Gvar(i) == <<"gvar", i>>
Instr(i) == <<"instr", i>>

MCConsts ==
    <<[type |-> 1, kind |-> "int", value |-> 0],
      [type |-> 1, kind |-> "int", value |-> -300],
      [type |-> 2, kind |-> "float", value |-> 2^30],
      [type |-> 3, kind |-> "int", value |-> 1],
      [type |-> 2, kind |-> "undef", value |-> 0],
      [type |-> 8, kind |-> "aggregate", value |-> <<Const(2), Const(1)>>]>>

G(type, init, align, name) ==
    [type |-> type, as |-> 3, init |-> init, align |-> align, name |-> name]

MCGvars == {<<>>,
            <<G(1, <<>>, 0, <<95>>)>>,
            <<G(8, Const(6), 16, <<71, 33>>), G(11, <<>>, 4, <<200, 57>>)>>}

MCFuncs ==
    <<[type |-> 9, decl |-> FALSE, attr_set |-> 0, name |-> <<109, 97>>],
      [type |-> 10, decl |-> TRUE, attr_set |-> 1, name |-> <<100, 46>>],
      [type |-> 9, decl |-> TRUE, attr_set |-> 1, name |-> <<64>>]>>

I(op, args, type, imm, blocks) ==
    [op |-> op, args |-> args, type |-> type, imm |-> imm, blocks |-> blocks,
     has_value |-> op \notin {"br", "ret", "store"} /\ (op = "call" => type # 9)]

Body(instrs, blocks, ids) ==
    [instrs |-> instrs, curr_block |-> blocks, basic_block_ids |-> ids]

Ret == I("ret", <<>>, 0, <<>>, <<>>)

JustReturn == Body(<<Ret>>, 1, <<0>>)

Straight ==
    Body(<<I("call", <<Func(3)>>, 9, <<>>, <<>>),
           I("call", <<Func(2), Const(1), Const(2)>>, 10, <<>>, <<>>),
           I("binop", <<Instr(2), Const(2)>>, 1, <<1, 0>>, <<>>),
           I("binop", <<Instr(2), Instr(3)>>, 1, <<13, 64>>, <<>>),
           I("extractval", <<Instr(4)>>, 1, <<1>>, <<>>), Ret>>, 1, <<0>>)

(* A loop: the phi refers forward to the sum of the next iteration.         *)
Loop ==
    Body(<<I("br", <<>>, 0, <<>>, <<2>>),
           I("phi", <<Const(1), Instr(3)>>, 1, <<>>, <<1, 2>>),
           I("binop", <<Instr(2), Const(2)>>, 1, <<0, 0>>, <<>>),
           I("cmp", <<Instr(3), Instr(2)>>, 3, <<36>>, <<>>),
           I("br", <<Instr(4)>>, 0, <<>>, <<2, 3>>), Ret>>, 3, <<0, 1, 2>>)

Memory ==
    Body(<<I("alloca", <<Const(2)>>, 8, <<1, 3>>, <<>>),
           I("gep", <<Instr(1), Const(1), Const(2)>>, 8, <<1>>, <<>>),
           I("load", <<Instr(2)>>, 1, <<3, 0>>, <<>>),
           I("store", <<Instr(2), Instr(3)>>, 0, <<3, 0>>, <<>>),
           I("atomicrmw", <<Instr(2), Const(1)>>, 1, <<1, 0, 7, 1>>, <<>>),
           I("cmpxchg", <<Instr(2), Const(1), Instr(5)>>, 1, <<0, 7, 1>>, <<>>),
           I("cast", <<Instr(6)>>, 2, <<4>>, <<>>),
           I("select", <<Const(4), Instr(7), Const(3)>>, 2, <<>>, <<>>),
           Ret>>, 1, <<0>>)

MCDefs == {<<JustReturn>>, <<Memory>>, <<Straight, Loop>>, <<Loop, Memory>>}

MCAttrs ==
    {<<<<[type |-> 0, kind |-> 18]>>>>,
     <<<<[type |-> 1, kind |-> 2, value |-> 40],
         [type |-> 3, key |-> <<102>>]>>,
       <<[type |-> 4, key |-> <<102>>, value |-> <<103, 45>>]>>>>}

MCMetadata ==
    {[mdnodes |-> <<>>, named |-> <<>>],
     [mdnodes |-> <<[kind |-> "value", type |-> 1, value |-> Const(2)],
                    [kind |-> "string", text |-> <<118, 200>>],
                    [kind |-> "value", type |-> 4, value |-> Func(1)],
                    [kind |-> "node", subnodes |-> <<1, 0, 3>>]>>,
      named |-> <<[name |-> <<100, 120>>, subnodes |-> <<4>>]>>]}

MCModules ==
    {[types |-> MCTypes, gvars |-> g, funcs |-> MCFuncs, consts |-> MCConsts,
      defs |-> d, attrs |-> a, mdnodes |-> md.mdnodes, named |-> md.named,
      functions |-> {}] :
        g \in MCGvars, d \in MCDefs, a \in MCAttrs, md \in MCMetadata}

MCLimits == {0, 1, 2, 3, 10, 17, 18, 19, 35, 45, 55, 70, 90, 500}

(* Scalars, handles and the structs of a description, with and without an   *)
(* overload; two of the functions have the same parameters.                 *)
MCPredefined ==
    (97 :> [ret |-> "O", params |-> <<"i", "O">>, attr |-> 20])
    @@ (98 :> [ret |-> "v", params |-> <<"i", "@", "O">>, attr |-> NONE])
    @@ (99 :> [ret |-> "R", params |-> <<"i", "@">>, attr |-> 21])
    @@ (100 :> [ret |-> "D", params |-> <<"i", "@">>, attr |-> 21])
    @@ (101 :> [ret |-> "B", params |-> <<"i", "@">>, attr |-> 21])
    @@ (102 :> [ret |-> "F", params |-> <<"i", "b">>, attr |-> 20])
MCOverloads == {Void, FloatType(32), IntType(64)}
MCInts == {<<32, 7>>, <<8, 0>>, <<64, -300>>}
(* Zero, a double, and the quiet NaN of 32 bits                             *)
MCNaNs == {<<32, 2143289344>>}
MCFloats == {<<32, 0>>, <<64, 7>>} \union MCNaNs
(* Zero and, for TLC's integers, 2^31 - 1 in the place of the bits of -0.0.  *)
MCFloatsSigned == {16, 32, 64} \X {0, 2147483647}
MCResTypes == {[name |-> <<84>>, comp |-> FloatType(32), num |-> 4],
               [name |-> <<85>>, comp |-> IntType(32), num |-> 1]}
MCBindings == {[lower |-> 0, upper |-> 7, space |-> 0, class |-> 0]}

MCNoModules == {}

MCTriple == <<100, 120>>
MCDatalayout == <<101, 45>>
=============================================================================
