-------------------------- MODULE DxilModuleProofs --------------------------
(***************************************************************************)
(* For every set of function descriptions, overloads, constants, resources *)
(* and requests, in any number and order: the lists of a module that is    *)
(* being built are sound, its answers stay what they were, and they are    *)
(* what was asked for.                                                     *)
(***************************************************************************)
EXTENDS DxilModule, SequenceTheorems, TLAPS
-----------------------------------------------------------------------------
(* A module only grows, at the end of its lists.                           *)
Longer(a, b) == \A i \in 1 .. Len(a) : i \in 1 .. Len(b) /\ b[i] = a[i]

Grows(m, r) ==
    /\ Longer(m.types, r.types) /\ Longer(m.consts, r.consts)
    /\ Longer(m.funcs, r.funcs) /\ Longer(m.attrs, r.attrs)
    /\ Longer(m.mdnodes, r.mdnodes)
    /\ m.functions \subseteq r.functions

(* A request for types leaves the tree of functions alone.                 *)
TypesGrow(m, r) == Grows(m, r) /\ r.functions = m.functions

(* The requests that are made in sequence: types, letters of a             *)
(* description, numbers, undefined values, items of a metadata node, and   *)
(* named nodes.                                                            *)
CallType(x, m, t) == get_type(m, t)
MayType(x, m, t) == t.kind # "function" /\ RefersTo(t, Len(m.types))
IsType(x, m, t, id) == HasType(m, t, id)

CallLetter(ov, m, letter) == get_type_from_string(m, letter, ov)
MayLetter(ov, m, letter) == /\ ov \in Scalars /\ letter \in Letters
                            /\ letter \in {"O", "B", "R"} => ov # Void
IsLetter(ov, m, letter, id) == HasLetter(m, letter, ov, id)

CallInt(x, m, v) == get_int_const(m, v[1], v[2])
MayInt(x, m, v) == TRUE
IsInt(x, m, v, c) == HasInt(m, v[1], v[2], c)

CallUndef(x, m, t) == dxil_module_get_undef(m, t)
MayUndef(x, m, t) == t \in Ids(m)
IsUndef(x, m, t, c) == TRUE

CallItem(x, m, i) == Item(m, i)
MayItem(x, m, i) ==
    \/ i[1] \in {"string", "int"}
    \/ i[1] = "func" /\ i[2] \in 1 .. Len(m.funcs)
    \/ i[1] = "node" /\ i[2] \in 0 .. Len(m.mdnodes)
IsItem(x, m, i, n) == n \in 0 .. Len(m.mdnodes)

CallNamed(x, m, node) == AddNamed(m, node)
MayNamed(x, m, node) ==
    /\ Len(node.items) \in Nat
    /\ \A k \in 1 .. Len(node.items) : node.items[k][1] \in {"string", "int"}
IsNamed(x, m, node, n) == TRUE

Types == INSTANCE RequestChain WITH
            Call <- CallType, Good <- IsSound, Grows <- TypesGrow,
            May <- MayType, Has <- IsType
Spelling == INSTANCE RequestChain WITH
            Call <- CallLetter, Good <- IsSound, Grows <- TypesGrow,
            May <- MayLetter, Has <- IsLetter
Numerals == INSTANCE RequestChain WITH
            Call <- CallInt, Good <- IsSound, May <- MayInt, Has <- IsInt
Undefs == INSTANCE RequestChain WITH
            Call <- CallUndef, Good <- IsSound, May <- MayUndef, Has <- IsUndef
Items == INSTANCE RequestChain WITH
            Call <- CallItem, Good <- IsSound, May <- MayItem, Has <- IsItem
NamedNodes == INSTANCE RequestChain WITH
            Call <- CallNamed, Good <- IsSound, May <- MayNamed, Has <- IsNamed
-----------------------------------------------------------------------------
(* Lists.                                                                  *)
IsList(l) == l \in Seq(ToSet(l))

LEMMA ListType ==
    ASSUME NEW l, IsList(l)
    PROVE  Len(l) \in Nat /\ DOMAIN l = 1 .. Len(l)
BY DEF IsList

LEMMA AppendList ==
    ASSUME NEW l, IsList(l), NEW e
    PROVE  /\ IsList(Append(l, e))
           /\ Len(l) \in Nat
           /\ Len(Append(l, e)) = Len(l) + 1
           /\ \A i \in 1 .. Len(l) : Append(l, e)[i] = l[i]
           /\ Append(l, e)[Len(l) + 1] = e
<1> DEFINE U == ToSet(l) \union {e}
           a == Append(l, e)
           n == Len(l)
<1>1. l \in Seq(U) /\ e \in U
    BY DEF IsList
<1> HIDE DEF U
<1>2. /\ a \in Seq(U) /\ n \in Nat /\ Len(a) = n + 1
      /\ \A i \in 1 .. n : a[i] = l[i]
      /\ a[n + 1] = e
    BY <1>1
<1> HIDE DEF a, n
<1>3. \A i \in 1 .. n + 1 : a[i] \in ToSet(a)
    BY <1>2 DEF ToSet
<1>4. IsList(a)
    <2>1. a = [i \in 1 .. n + 1 |-> a[i]]
        BY <1>2
    <2>2. [i \in 1 .. n + 1 |-> a[i]] \in Seq(ToSet(a))
        BY <1>2, <1>3
    <2> QED
        BY <2>1, <2>2 DEF IsList
<1> QED
    BY <1>2, <1>4 DEF a, n

(* The first place with a property stays the first when the list grows.    *)
LEMMA FirstIs ==
    ASSUME NEW S, S \subseteq Nat, NEW i \in S, \A j \in S : i <= j
    PROVE  First(S) = i
<1>1. \A k \in S : (\A j \in S : k <= j) => k = i
    BY SMT
<1>2. /\ First(S) \in S
      /\ \A j \in S : First(S) <= j
    BY DEF First
<1> QED
    BY <1>1, <1>2

LEMMA LeastPlace ==
    ASSUME NEW n \in Nat, NEW S, S \subseteq 1 .. n, S # {}
    PROVE  First(S) \in S /\ \A j \in S : First(S) <= j
<1>1. \E i \in S : \A j \in S : i <= j
    <2>1. S \subseteq Nat
        OBVIOUS
    <2> QED
        BY <2>1, Types!LeastNat
<1> QED
    BY <1>1 DEF First

HasLists(m) == /\ DOMAIN m = ModuleFields
               /\ IsList(m.types) /\ IsList(m.consts) /\ IsList(m.funcs)
               /\ IsList(m.attrs) /\ IsList(m.mdnodes)

LEMMA SoundHasLists == \A m : IsSound(m) => HasLists(m)
BY DEF IsSound, HasLists, IsList

LEMMA LengthsOf ==
    ASSUME NEW m, HasLists(m)
    PROVE  /\ Len(m.types) \in Nat /\ Len(m.consts) \in Nat
           /\ Len(m.funcs) \in Nat /\ Len(m.attrs) \in Nat
           /\ Len(m.mdnodes) \in Nat
BY ListType DEF HasLists

LEMMA GrowsReflexive == \A m : Grows(m, m)
BY DEF Grows, Longer

LEMMA GrowsTransitive ==
    \A m1, m2, m3 : Grows(m1, m2) /\ Grows(m2, m3) => Grows(m1, m3)
<1>1. \A a, b, c : Longer(a, b) /\ Longer(b, c) => Longer(a, c)
    BY DEF Longer
<1> QED
    BY <1>1 DEF Grows

(* What grows: the ids, and every answer stays.                            *)
LEMMA LongerLength ==
    ASSUME NEW a, NEW b, IsList(a), IsList(b), Longer(a, b)
    PROVE  Len(a) <= Len(b)
<1>1. Len(a) \in Nat /\ Len(b) \in Nat
    BY ListType
<1>2. CASE Len(a) = 0
    BY <1>1, <1>2
<1>3. CASE Len(a) # 0
    <2>1. Len(a) \in 1 .. Len(a)
        BY <1>1, <1>3
    <2> QED
        BY <1>1, <2>1 DEF Longer
<1> QED
    BY <1>2, <1>3

LEMMA Lengths ==
    ASSUME NEW m, HasLists(m), NEW r, HasLists(r), Grows(m, r)
    PROVE  /\ Len(m.types) \in Nat /\ Len(r.types) \in Nat
           /\ Len(m.types) <= Len(r.types)
           /\ Len(m.consts) \in Nat /\ Len(r.consts) \in Nat
           /\ Len(m.consts) <= Len(r.consts)
           /\ Len(m.funcs) \in Nat /\ Len(r.funcs) \in Nat
           /\ Len(m.funcs) <= Len(r.funcs)
           /\ Len(m.attrs) \in Nat /\ Len(r.attrs) \in Nat
           /\ Len(m.attrs) <= Len(r.attrs)
           /\ Len(m.mdnodes) \in Nat /\ Len(r.mdnodes) \in Nat
           /\ Len(m.mdnodes) <= Len(r.mdnodes)
BY LengthsOf, LongerLength DEF Grows, HasLists

(* Every answer stays right in a module that grows.                        *)
LEMMA TypeStays ==
    ASSUME NEW m, HasLists(m), NEW r, HasLists(r), Grows(m, r),
           NEW t, NEW id, HasType(m, t, id)
    PROVE  HasType(r, t, id)
<1>1. Len(m.types) \in Nat /\ Len(r.types) \in Nat /\ Len(m.types) <= Len(r.types)
    BY Lengths
<1>2. id \in Ids(r) /\ id + 1 \in 1 .. Len(m.types)
    BY <1>1 DEF HasType, Ids
<1> QED
    BY <1>2 DEF HasType, Grows, Longer

LEMMA TypesStay ==
    ASSUME NEW m, HasLists(m), NEW r, HasLists(r), Grows(m, r),
           NEW ts, NEW ids, HasTypes(m, ts, ids)
    PROVE  HasTypes(r, ts, ids)
BY TypeStays DEF HasTypes

LEMMA StructStays ==
    ASSUME NEW m, HasLists(m), NEW r, HasLists(r), Grows(m, r),
           NEW s, NEW id, HasStruct(m, s, id)
    PROVE  HasStruct(r, s, id)
<1>1. PICK i \in 1 .. Len(m.types) :
          /\ id = i - 1
          /\ m.types[i].kind = "struct"
          /\ m.types[i] = [kind |-> "struct", name |-> s.name,
                           elems |-> m.types[i].elems]
          /\ HasTypes(m, s.elems, m.types[i].elems)
    BY DEF HasStruct
<1>2. i \in 1 .. Len(r.types) /\ r.types[i] = m.types[i]
    BY DEF Grows, Longer
<1>3. HasTypes(r, s.elems, r.types[i].elems)
    BY <1>1, <1>2, TypesStay
<1> QED
    BY <1>1, <1>2, <1>3 DEF HasStruct

LEMMA IdsStay ==
    ASSUME NEW m, HasLists(m), NEW r, HasLists(r), Grows(m, r)
    PROVE  \A id \in Ids(m) : id \in Ids(r) /\ r.types[id + 1] = m.types[id + 1]
<1>1. Len(m.types) \in Nat /\ Len(r.types) \in Nat /\ Len(m.types) <= Len(r.types)
    BY Lengths
<1>2. \A id \in Ids(m) : id \in Ids(r) /\ id + 1 \in 1 .. Len(m.types)
    BY <1>1 DEF Ids
<1> QED
    BY <1>2 DEF Grows, Longer

LEMMA HandleStays ==
    ASSUME NEW m, HasLists(m), NEW r, HasLists(r), Grows(m, r),
           NEW id, HasHandle(m, id)
    PROVE  HasHandle(r, id)
<1>1. PICK b \in Ids(m), p \in Ids(m) :
          /\ HasType(m, IntType(8), b)
          /\ HasType(m, [kind |-> "pointer", target |-> b], p)
          /\ HasType(m, [kind |-> "struct", name |-> <<72>>, elems |-> <<p>>], id)
    BY DEF HasHandle
<1>2. b \in Ids(r) /\ p \in Ids(r)
    BY IdsStay
<1>3. /\ HasType(r, IntType(8), b)
      /\ HasType(r, [kind |-> "pointer", target |-> b], p)
      /\ HasType(r, [kind |-> "struct", name |-> <<72>>, elems |-> <<p>>], id)
    BY <1>1, TypeStays
<1> QED
    BY <1>2, <1>3 DEF HasHandle

LEMMA ResourceStays ==
    ASSUME NEW m, HasLists(m), NEW r, HasLists(r), Grows(m, r),
           NEW res, NEW id, HasResource(m, res, id)
    PROVE  HasResource(r, res, id)
<1>1. PICK c \in Ids(m), v \in Ids(m) :
          /\ HasType(m, res.comp, c)
          /\ IF res.num = 1 THEN v = c
             ELSE HasType(m, [kind |-> "vector", num |-> res.num, elem |-> c], v)
          /\ HasType(m, [kind |-> "struct", name |-> res.name,
                         elems |-> <<v>>], id)
    BY DEF HasResource
<1>2. c \in Ids(r) /\ v \in Ids(r)
    BY IdsStay
<1>3. /\ HasType(r, res.comp, c)
      /\ IF res.num = 1 THEN v = c
         ELSE HasType(r, [kind |-> "vector", num |-> res.num, elem |-> c], v)
      /\ HasType(r, [kind |-> "struct", name |-> res.name, elems |-> <<v>>], id)
    BY <1>1, TypeStays
<1> QED
    BY <1>2, <1>3 DEF HasResource

LEMMA LetterStays ==
    ASSUME NEW m, HasLists(m), NEW r, HasLists(r), Grows(m, r),
           NEW ov, NEW letter, NEW id, HasLetter(m, letter, ov, id)
    PROVE  HasLetter(r, letter, ov, id)
BY HandleStays, StructStays, TypeStays DEF HasLetter

LEMMA ConstsStay ==
    ASSUME NEW m, NEW r, Grows(m, r)
    PROVE  \A i \in 1 .. Len(m.consts) : /\ i \in 1 .. Len(r.consts)
                                        /\ r.consts[i] = m.consts[i]
BY DEF Grows, Longer

LEMMA ConstStays ==
    ASSUME NEW m, NEW r, Grows(m, r), NEW c, NEW v, HasConst(m, c, v)
    PROVE  HasConst(r, c, v)
BY ConstsStay DEF HasConst

LEMMA IntStays ==
    ASSUME NEW m, HasLists(m), NEW r, HasLists(r), Grows(m, r),
           NEW bits, NEW n, NEW v, HasInt(m, bits, n, v)
    PROVE  HasInt(r, bits, n, v)
<1>1. PICK t \in Ids(m) :
          /\ HasType(m, IntType(bits), t)
          /\ HasConst(m, [type |-> t, kind |-> "int", value |-> n], v)
    BY DEF HasInt
<1>2. t \in Ids(r)
    BY IdsStay
<1>3. /\ HasType(r, IntType(bits), t)
      /\ HasConst(r, [type |-> t, kind |-> "int", value |-> n], v)
    BY <1>1, TypeStays, ConstStays
<1> QED
    BY <1>2, <1>3 DEF HasInt

LEMMA FirstFloatStays ==
    ASSUME NEW m, HasLists(m), NEW r, HasLists(r), Grows(m, r),
           NEW bits, NEW n, NEW v, HasFirstFloat(m, bits, n, v)
    PROVE  HasFirstFloat(r, bits, n, v)
<1>1. PICK t \in Ids(m), i \in 1 .. Len(m.consts) :
          /\ HasType(m, FloatType(bits), t)
          /\ v = Const(i)
          /\ SameFloat(m.consts[i], t, bits, n)
          /\ \A j \in 1 .. i - 1 : ~ SameFloat(m.consts[j], t, bits, n)
    BY DEF HasFirstFloat
<1>2. t \in Ids(r) /\ i \in 1 .. Len(r.consts) /\ r.consts[i] = m.consts[i]
    BY IdsStay, ConstsStay
<1>3. HasType(r, FloatType(bits), t)
    BY <1>1, TypeStays
<1>4. \A j \in 1 .. i - 1 : r.consts[j] = m.consts[j]
    <2>1. Len(m.consts) \in Nat
        BY LengthsOf
    <2>2. \A j \in 1 .. i - 1 : j \in 1 .. Len(m.consts)
        BY <2>1
    <2> QED
        BY <2>2, ConstsStay
<1> QED
    BY <1>1, <1>2, <1>3, <1>4, Zenon DEF HasFirstFloat

LEMMA FloatStays ==
    ASSUME NEW m, HasLists(m), NEW r, HasLists(r), Grows(m, r),
           NEW bits, NEW n, NEW v, HasFloat(m, bits, n, v)
    PROVE  HasFloat(r, bits, n, v)
<1>1. CASE IsNaN(bits, n)
    <2>1. PICK t \in Ids(m) :
              /\ HasType(m, FloatType(bits), t)
              /\ HasConst(m, [type |-> t, kind |-> "float", value |-> n], v)
        BY <1>1 DEF HasFloat, HasNaN
    <2>2. /\ t \in Ids(r) /\ HasType(r, FloatType(bits), t)
          /\ HasConst(r, [type |-> t, kind |-> "float", value |-> n], v)
        BY <2>1, IdsStay, TypeStays, ConstStays
    <2> QED
        BY <1>1, <2>2 DEF HasFloat, HasNaN
<1>2. CASE ~ IsNaN(bits, n)
    BY <1>2, FirstFloatStays DEF HasFloat
<1> QED
    BY <1>1, <1>2

LEMMA BindingStays ==
    ASSUME NEW m, HasLists(m), NEW r, HasLists(r), Grows(m, r),
           NEW b, NEW v, HasBinding(m, b, v)
    PROVE  HasBinding(r, b, v)
<1>1. PICK i \in 1 .. Len(m.consts) :
          LET c == m.consts[i]
          IN  /\ v = Const(i)
              /\ c.kind = "aggregate"
              /\ c = [type |-> c.type, kind |-> "aggregate", value |-> c.value]
              /\ HasStruct(m, StructOf("#", Void), c.type)
              /\ Len(c.value) = 4
              /\ \A k \in 1 .. 4 : HasInt(m, Numbers(b)[k][1], Numbers(b)[k][2],
                                          c.value[k])
    BY DEF HasBinding
<1>2. i \in 1 .. Len(r.consts) /\ r.consts[i] = m.consts[i]
    BY ConstsStay
<1>3. HasStruct(r, StructOf("#", Void), r.consts[i].type)
    BY <1>1, <1>2, StructStays
<1>4. \A k \in 1 .. 4 : HasInt(r, Numbers(b)[k][1], Numbers(b)[k][2],
                               r.consts[i].value[k])
    BY <1>1, <1>2, IntStays
<1> QED
    BY <1>1, <1>2, <1>3, <1>4 DEF HasBinding

LEMMA PrototypeStays ==
    ASSUME NEW m, HasLists(m), NEW r, HasLists(r), Grows(m, r),
           NEW f, f.type \in Ids(m), NEW name, NEW ov, IsPrototype(m, f, name, ov)
    PROVE  IsPrototype(r, f, name, ov)
<1>1. r.types[f.type + 1] = m.types[f.type + 1]
    BY IdsStay
<1>2. f.attr_set \in 1 .. Len(r.attrs) /\ r.attrs[f.attr_set] = m.attrs[f.attr_set]
    BY DEF Grows, Longer, IsPrototype
<1> DEFINE t == m.types[f.type + 1]
           p == Predefined[name]
<1>3. HasLetter(r, p.ret, ov, t.ret)
    BY LetterStays DEF IsPrototype
<1>4. \A k \in 1 .. Len(p.params) : HasLetter(r, p.params[k], ov, t.args[k])
    BY LetterStays DEF IsPrototype
<1> QED
    BY <1>1, <1>2, <1>3, <1>4 DEF IsPrototype
-----------------------------------------------------------------------------
(* What a step leaves alone stays sound.                                   *)
LEMMA TypedStays ==
    ASSUME NEW m, HasLists(m), NEW r, HasLists(r), Grows(m, r),
           NEW c, NEW n, IsTyped(m, c, n)
    PROVE  IsTyped(r, c, n)
<1>1. c.type \in Ids(m)
    BY DEF IsTyped
<1>2. c.type \in Ids(r) /\ r.types[c.type + 1] = m.types[c.type + 1]
    BY <1>1, IdsStay
<1> QED
    BY <1>2 DEF IsTyped

LEMMA FuncsStay ==
    ASSUME NEW m, HasLists(m), NEW r, HasLists(r), Grows(m, r),
           NEW f, IsFunctionType(m, f.type),
           f.attr_set \in (IF f.decl THEN 1 ELSE 0) .. Len(m.attrs)
    PROVE  /\ IsFunctionType(r, f.type)
           /\ f.attr_set \in (IF f.decl THEN 1 ELSE 0) .. Len(r.attrs)
<1>1. f.type \in Ids(r) /\ r.types[f.type + 1] = m.types[f.type + 1]
    BY IdsStay DEF IsFunctionType
<1>2. Len(m.attrs) \in Nat /\ Len(r.attrs) \in Nat /\ Len(m.attrs) <= Len(r.attrs)
    BY Lengths
<1>3. f.attr_set \in (IF f.decl THEN 1 ELSE 0) .. Len(r.attrs)
    BY <1>2
<1> QED
    BY <1>1, <1>3 DEF IsFunctionType

LEMMA NaNStays ==
    ASSUME NEW m, HasLists(m), NEW r, HasLists(r), Grows(m, r),
           NEW c, NEW n, IsTyped(m, c, n), IsNaNConst(m, c)
    PROVE  IsNaNConst(r, c)
<1>1. c.type \in Ids(m)
    BY DEF IsTyped
<1>2. HasType(m, m.types[c.type + 1], c.type)
    BY <1>1 DEF HasType
<1>3. HasType(r, m.types[c.type + 1], c.type)
    BY <1>2, TypeStays
<1>4. r.types[c.type + 1] = m.types[c.type + 1]
    BY <1>3 DEF HasType
<1> QED
    BY <1>4 DEF IsNaNConst

LEMMA KeptParts ==
    ASSUME NEW m, IsSound(m), NEW r, HasLists(r), Grows(m, r)
    PROVE  /\ r.types = m.types => TypesAreSound(r)
           /\ r.consts = m.consts => ConstsAreSound(r)
           /\ r.mdnodes = m.mdnodes => NodesAreSound(r)
           /\ r.attrs = m.attrs => AttrsAreSound(r)
           /\ r.funcs = m.funcs => FuncsAreSound(r)
           /\ r.functions = m.functions => PrototypesAreSound(r)
<1>0. HasLists(m)
    BY SoundHasLists
<1>1. r.types = m.types => TypesAreSound(r)
    BY DEF IsSound, TypesAreSound
<1>2. ASSUME r.consts = m.consts PROVE ConstsAreSound(r)
    <2>1. ConstsAreSound(m)
        BY DEF IsSound
    <2>2. \A i \in 1 .. Len(m.consts) :
             IsNaNConst(m, m.consts[i]) => IsNaNConst(r, m.consts[i])
        BY <1>0, <2>1, NaNStays DEF ConstsAreSound
    <2> QED
        BY <1>0, <1>2, <2>1, <2>2, TypedStays DEF ConstsAreSound
<1>3. r.mdnodes = m.mdnodes => NodesAreSound(r)
    BY DEF IsSound, NodesAreSound
<1>4. r.attrs = m.attrs => AttrsAreSound(r)
    BY DEF IsSound, AttrsAreSound
<1>5. ASSUME r.funcs = m.funcs PROVE FuncsAreSound(r)
    <2>1. FuncsAreSound(m)
        BY DEF IsSound
    <2>2. \A i \in 1 .. Len(m.funcs) :
             /\ IsFunctionType(r, m.funcs[i].type)
             /\ m.funcs[i].attr_set
                   \in (IF m.funcs[i].decl THEN 1 ELSE 0) .. Len(r.attrs)
        BY <1>0, <2>1, FuncsStay DEF FuncsAreSound
    <2> QED
        BY <1>5, <2>2 DEF FuncsAreSound
<1>6. ASSUME r.functions = m.functions PROVE PrototypesAreSound(r)
    <2>1. PrototypesAreSound(m) /\ FuncsAreSound(m)
        BY DEF IsSound
    <2>2. ASSUME NEW f \in m.functions
          PROVE  \E i \in 1 .. Len(r.funcs) :
                    /\ f = [name |-> f.name, overload |-> f.overload,
                            func |-> <<"func", i>>]
                    /\ IsPrototype(r, r.funcs[i], f.name, f.overload)
        <3>1. PICK i \in 1 .. Len(m.funcs) :
                    /\ f = [name |-> f.name, overload |-> f.overload,
                            func |-> <<"func", i>>]
                    /\ IsPrototype(m, m.funcs[i], f.name, f.overload)
            BY <2>1 DEF PrototypesAreSound
        <3>2. i \in 1 .. Len(r.funcs) /\ r.funcs[i] = m.funcs[i]
            BY DEF Grows, Longer
        <3>3. m.funcs[i].type \in Ids(m)
            BY <2>1 DEF FuncsAreSound, IsFunctionType
        <3>4. IsPrototype(r, m.funcs[i], f.name, f.overload)
            BY <1>0, <3>1, <3>3, PrototypeStays
        <3> QED
            BY <3>1, <3>2, <3>4
    <2>3. \A f, g \in m.functions :
             f.name = g.name /\ f.overload = g.overload => f = g
        BY <2>1 DEF PrototypesAreSound
    <2> QED
        BY <1>6, <2>2, <2>3 DEF PrototypesAreSound
<1> QED
    BY <1>1, <1>2, <1>3, <1>4, <1>5, <1>6

LEMMA SoundParts ==
    ASSUME NEW r, HasLists(r), TypesAreSound(r), ConstsAreSound(r),
           NodesAreSound(r), AttrsAreSound(r), FuncsAreSound(r),
           PrototypesAreSound(r)
    PROVE  IsSound(r)
<1>1. \A list \in {"types", "consts", "funcs", "attrs", "mdnodes"} :
          r[list] \in Seq(ToSet(r[list]))
    BY DEF HasLists, IsList
<1>2. DOMAIN r = ModuleFields
    BY DEF HasLists
<1> QED
    BY <1>1, <1>2 DEF IsSound

(* A step that leaves all these lists alone                                *)
LEMMA SoundElsewhere ==
    ASSUME NEW m, IsSound(m), NEW r, DOMAIN r = DOMAIN m,
           r.types = m.types, r.consts = m.consts, r.funcs = m.funcs,
           r.attrs = m.attrs, r.mdnodes = m.mdnodes, r.functions = m.functions
    PROVE  IsSound(r) /\ Grows(m, r)
<1>1. HasLists(r)
    BY SoundHasLists DEF HasLists
<1>2. Grows(m, r)
    BY DEF Grows, Longer
<1> QED
    BY <1>1, <1>2, KeptParts, SoundParts

LEMMA LongerByOne ==
    ASSUME NEW l, IsList(l), NEW e
    PROVE  Longer(l, Append(l, e))
<1>1. /\ Len(l) \in Nat /\ Len(Append(l, e)) = Len(l) + 1
      /\ \A i \in 1 .. Len(l) : Append(l, e)[i] = l[i]
    BY AppendList
<1>2. \A i \in 1 .. Len(l) : i \in 1 .. Len(Append(l, e))
    BY <1>1
<1> QED
    BY <1>1, <1>2 DEF Longer

LEMMA LongerSelf == \A l : Longer(l, l)
BY DEF Longer

(* A new type, which is a function type or not in the list.                *)
LEMMA GrowTypes ==
    ASSUME NEW m, IsSound(m), NEW t, RefersTo(t, Len(m.types)),
           t.kind = "function" \/ \A i \in 1 .. Len(m.types) : m.types[i] # t,
           NEW r, r = [m EXCEPT !.types = Append(@, t)]
    PROVE  /\ IsSound(r) /\ Grows(m, r)
           /\ Len(m.types) \in Nat /\ Len(r.types) = Len(m.types) + 1
           /\ HasType(r, t, Len(m.types))
           /\ r.funcs = m.funcs
<1> DEFINE n == Len(m.types)
<1>1. HasLists(m)
    BY SoundHasLists
<1>2. /\ r.types = Append(m.types, t)
      /\ r.consts = m.consts /\ r.funcs = m.funcs /\ r.attrs = m.attrs
      /\ r.mdnodes = m.mdnodes /\ r.functions = m.functions
      /\ DOMAIN r = ModuleFields
    BY <1>1 DEF HasLists, ModuleFields
<1>3. /\ IsList(r.types) /\ n \in Nat /\ Len(r.types) = n + 1
      /\ \A i \in 1 .. n : r.types[i] = m.types[i]
      /\ r.types[n + 1] = t
    BY <1>1, <1>2, AppendList DEF HasLists
<1>4. HasLists(r)
    BY <1>1, <1>2, <1>3 DEF HasLists
<1>5. Grows(m, r)
    BY <1>1, <1>2, LongerByOne, LongerSelf DEF Grows, HasLists
<1> HIDE DEF n
<1>6. TypesAreSound(r)
    <2>1. TypesAreSound(m)
        BY DEF IsSound
    <2>2. ASSUME NEW i \in 1 .. Len(r.types)
          PROVE  RefersTo(r.types[i], i - 1)
        <3>1. CASE i = n + 1
            <4>1. i - 1 = n
                BY <1>3, <3>1
            <4> QED
                BY <1>3, <3>1, <4>1 DEF n
        <3>2. CASE i # n + 1
            <4>1. i \in 1 .. n
                BY <1>3, <3>2
            <4> QED
                BY <1>3, <2>1, <4>1 DEF TypesAreSound, n
        <3> QED
            BY <3>1, <3>2
    <2>3. ASSUME NEW i \in 1 .. Len(r.types), NEW j \in 1 .. Len(r.types),
                 r.types[i] = r.types[j], i # j
          PROVE  r.types[i].kind = "function"
        <3>1. CASE i \in 1 .. n /\ j \in 1 .. n
            BY <1>3, <2>1, <2>3, <3>1 DEF TypesAreSound, n
        <3>2. CASE i \notin 1 .. n
            <4>1. i = n + 1 /\ j \in 1 .. n
                BY <1>3, <2>3, <3>2
            <4> QED
                BY <1>3, <2>3, <4>1 DEF n
        <3>3. CASE j \notin 1 .. n
            <4>1. j = n + 1 /\ i \in 1 .. n
                BY <1>3, <2>3, <3>3
            <4> QED
                BY <1>3, <2>3, <4>1 DEF n
        <3> QED
            BY <3>1, <3>2, <3>3
    <2> QED
        BY <2>2, <2>3 DEF TypesAreSound
<1>7. IsSound(r)
    BY <1>2, <1>4, <1>5, <1>6, KeptParts, SoundParts
<1>8. HasType(r, t, n)
    BY <1>3 DEF HasType, Ids
<1> QED
    BY <1>2, <1>3, <1>5, <1>7, <1>8 DEF n

(* A list without doubles, those of a set aside, stays so when a new entry *)
(* or a member of the set is appended.                                     *)
LEMMA StillDistinctBut ==
    ASSUME NEW l, IsList(l), NEW e, NEW S,
           \A i, j \in 1 .. Len(l) : l[i] = l[j] => i = j \/ l[i] \in S,
           \A i \in 1 .. Len(l) : l[i] = e => e \in S
    PROVE  \A i, j \in 1 .. Len(Append(l, e)) :
              Append(l, e)[i] = Append(l, e)[j]
                 => i = j \/ Append(l, e)[i] \in S
<1> DEFINE a == Append(l, e)
           n == Len(l)
<1>1. /\ n \in Nat /\ Len(a) = n + 1
      /\ \A i \in 1 .. n : a[i] = l[i]
      /\ a[n + 1] = e
    BY AppendList
<1>2. /\ \A i, j \in 1 .. n : l[i] = l[j] => i = j \/ l[i] \in S
      /\ \A i \in 1 .. n : l[i] = e => e \in S
    OBVIOUS
<1> HIDE DEF a, n
<1>3. ASSUME NEW i \in 1 .. Len(a), NEW j \in 1 .. Len(a), a[i] = a[j], i # j
      PROVE  a[i] \in S
    <2>1. CASE i \in 1 .. n /\ j \in 1 .. n
        BY <1>1, <1>2, <1>3, <2>1
    <2>2. CASE i \notin 1 .. n
        <3>1. i = n + 1 /\ j \in 1 .. n
            BY <1>1, <1>3, <2>2
        <3> QED
            BY <1>1, <1>2, <1>3, <3>1
    <2>3. CASE j \notin 1 .. n
        <3>1. j = n + 1 /\ i \in 1 .. n
            BY <1>1, <1>3, <2>3
        <3> QED
            BY <1>1, <1>2, <1>3, <3>1
    <2> QED
        BY <2>1, <2>2, <2>3
<1> QED
    BY <1>3 DEF a

LEMMA StillDistinct ==
    ASSUME NEW l, IsList(l), NEW e,
           \A i, j \in 1 .. Len(l) : l[i] = l[j] => i = j,
           \A i \in 1 .. Len(l) : l[i] # e
    PROVE  \A i, j \in 1 .. Len(Append(l, e)) :
              Append(l, e)[i] = Append(l, e)[j] => i = j
<1> DEFINE S == {}
<1>1. /\ \A i, j \in 1 .. Len(l) : l[i] = l[j] => i = j \/ l[i] \in S
      /\ \A i \in 1 .. Len(l) : l[i] = e => e \in S
    OBVIOUS
<1>2. \A x : x \notin S
    OBVIOUS
<1> HIDE DEF S
<1> QED
    BY <1>1, <1>2, StillDistinctBut

(* A new constant                                                          *)
LEMMA GrowConsts ==
    ASSUME NEW m, IsSound(m), NEW c, IsTyped(m, c, Len(m.consts)),
           (\A i \in 1 .. Len(m.consts) : m.consts[i] # c) \/ IsNaNConst(m, c),
           NEW r, r = [m EXCEPT !.consts = Append(@, c)]
    PROVE  /\ IsSound(r) /\ Grows(m, r)
           /\ Len(m.consts) \in Nat /\ Len(r.consts) = Len(m.consts) + 1
           /\ HasConst(r, c, Const(Len(m.consts) + 1))
           /\ \A i \in 1 .. Len(m.consts) : r.consts[i] = m.consts[i]
           /\ r.consts[Len(m.consts) + 1] = c
           /\ r.types = m.types /\ r.funcs = m.funcs
<1> DEFINE n == Len(m.consts)
<1>1. HasLists(m)
    BY SoundHasLists
<1>2. /\ r.consts = Append(m.consts, c)
      /\ r.types = m.types /\ r.funcs = m.funcs /\ r.attrs = m.attrs
      /\ r.mdnodes = m.mdnodes /\ r.functions = m.functions
      /\ DOMAIN r = ModuleFields
    BY <1>1 DEF HasLists, ModuleFields
<1>3. /\ IsList(r.consts) /\ n \in Nat /\ Len(r.consts) = n + 1
      /\ \A i \in 1 .. n : r.consts[i] = m.consts[i]
      /\ r.consts[n + 1] = c
    BY <1>1, <1>2, AppendList DEF HasLists
<1>4. HasLists(r)
    BY <1>1, <1>2, <1>3 DEF HasLists
<1>5. Grows(m, r)
    BY <1>1, <1>2, LongerByOne, LongerSelf DEF Grows, HasLists
<1> HIDE DEF n
<1>6. ConstsAreSound(r)
    <2>1. ConstsAreSound(m)
        BY DEF IsSound
    <2>2. ASSUME NEW i \in 1 .. Len(r.consts)
          PROVE  IsTyped(r, r.consts[i], i - 1)
        <3>1. CASE i = n + 1
            <4>1. i - 1 = n
                BY <1>3, <3>1
            <4>2. IsTyped(r, c, n)
                BY <1>1, <1>4, <1>5, TypedStays DEF n
            <4> QED
                BY <1>3, <3>1, <4>1, <4>2
        <3>2. CASE i # n + 1
            <4>1. i \in 1 .. n
                BY <1>3, <3>2
            <4>2. IsTyped(m, m.consts[i], i - 1)
                BY <2>1, <4>1 DEF ConstsAreSound, n
            <4> QED
                BY <1>1, <1>3, <1>4, <1>5, <4>1, <4>2, TypedStays
        <3> QED
            BY <3>1, <3>2
    <2>3. \A i, j \in 1 .. Len(r.consts) :
             r.consts[i] = r.consts[j] => i = j \/ IsNaNConst(r, r.consts[i])
        <3> DEFINE S == {x \in {c} \union {m.consts[i] : i \in 1 .. Len(m.consts)} :
                            IsNaNConst(m, x)}
        <3>1. \A x \in S : IsNaNConst(r, x)
            BY <1>2 DEF IsNaNConst
        <3>2. /\ \A i, j \in 1 .. Len(m.consts) :
                    m.consts[i] = m.consts[j] => i = j \/ m.consts[i] \in S
              /\ \A i \in 1 .. Len(m.consts) : m.consts[i] = c => c \in S
            BY <2>1 DEF ConstsAreSound
        <3>3. IsList(m.consts)
            BY <1>1 DEF HasLists
        <3> HIDE DEF S
        <3>4. \A i, j \in 1 .. Len(Append(m.consts, c)) :
                 Append(m.consts, c)[i] = Append(m.consts, c)[j]
                    => i = j \/ Append(m.consts, c)[i] \in S
            BY <3>2, <3>3, StillDistinctBut
        <3>5. r.consts = Append(m.consts, c)
            BY <1>2
        <3>6. \A i, j \in 1 .. Len(r.consts) :
                 r.consts[i] = r.consts[j] => i = j \/ r.consts[i] \in S
            BY <3>4, <3>5
        <3> QED
            BY <3>1, <3>6
    <2> QED
        BY <2>2, <2>3 DEF ConstsAreSound
<1>7. IsSound(r)
    BY <1>2, <1>4, <1>5, <1>6, KeptParts, SoundParts
<1>8. HasConst(r, c, Const(n + 1))
    <2>1. n + 1 \in 1 .. Len(r.consts)
        BY <1>3
    <2> QED
        BY <1>3, <2>1 DEF HasConst
<1> QED
    BY <1>2, <1>3, <1>5, <1>7, <1>8 DEF n

(* A new metadata node                                                     *)
LEMMA GrowNodes ==
    ASSUME NEW m, IsSound(m), NEW e,
           e.kind = "node" => e.subnodes \in Seq(0 .. Len(m.mdnodes)),
           \A i \in 1 .. Len(m.mdnodes) : m.mdnodes[i] # e,
           NEW r, r = [m EXCEPT !.mdnodes = Append(@, e)]
    PROVE  /\ IsSound(r) /\ Grows(m, r)
           /\ Len(m.mdnodes) \in Nat /\ Len(r.mdnodes) = Len(m.mdnodes) + 1
           /\ r.types = m.types /\ r.funcs = m.funcs
<1> DEFINE n == Len(m.mdnodes)
<1>1. HasLists(m)
    BY SoundHasLists
<1>2. /\ r.mdnodes = Append(m.mdnodes, e)
      /\ r.types = m.types /\ r.funcs = m.funcs /\ r.attrs = m.attrs
      /\ r.consts = m.consts /\ r.functions = m.functions
      /\ DOMAIN r = ModuleFields
    BY <1>1 DEF HasLists, ModuleFields
<1>3. /\ IsList(r.mdnodes) /\ n \in Nat /\ Len(r.mdnodes) = n + 1
      /\ \A i \in 1 .. n : r.mdnodes[i] = m.mdnodes[i]
      /\ r.mdnodes[n + 1] = e
    BY <1>1, <1>2, AppendList DEF HasLists
<1>4. HasLists(r)
    BY <1>1, <1>2, <1>3 DEF HasLists
<1>5. Grows(m, r)
    BY <1>1, <1>2, LongerByOne, LongerSelf DEF Grows, HasLists
<1> HIDE DEF n
<1>6. NodesAreSound(r)
    <2>1. NodesAreSound(m)
        BY DEF IsSound
    <2>2. ASSUME NEW i \in 1 .. Len(r.mdnodes), r.mdnodes[i].kind = "node"
          PROVE  r.mdnodes[i].subnodes \in Seq(0 .. i - 1)
        <3>1. CASE i = n + 1
            <4>1. i - 1 = n
                BY <1>3, <3>1
            <4> QED
                BY <1>3, <2>2, <3>1, <4>1 DEF n
        <3>2. CASE i # n + 1
            <4>1. i \in 1 .. n
                BY <1>3, <3>2
            <4> QED
                BY <1>3, <2>1, <2>2, <4>1 DEF NodesAreSound, n
        <3> QED
            BY <3>1, <3>2
    <2>3. \A i, j \in 1 .. Len(r.mdnodes) : r.mdnodes[i] = r.mdnodes[j] => i = j
        BY <1>1, <1>2, <2>1, StillDistinct DEF NodesAreSound, HasLists
    <2> QED
        BY <2>2, <2>3 DEF NodesAreSound
<1>7. IsSound(r)
    BY <1>2, <1>4, <1>5, <1>6, KeptParts, SoundParts
<1> QED
    BY <1>2, <1>3, <1>5, <1>7 DEF n

(* A new set of attributes                                                 *)
LEMMA GrowAttrs ==
    ASSUME NEW m, IsSound(m), NEW e,
           \A i \in 1 .. Len(m.attrs) : m.attrs[i] # e,
           NEW r, r = [m EXCEPT !.attrs = Append(@, e)]
    PROVE  /\ IsSound(r) /\ Grows(m, r)
           /\ Len(m.attrs) \in Nat /\ Len(r.attrs) = Len(m.attrs) + 1
           /\ r.attrs[Len(m.attrs) + 1] = e
<1> DEFINE n == Len(m.attrs)
<1>1. HasLists(m)
    BY SoundHasLists
<1>2. /\ r.attrs = Append(m.attrs, e)
      /\ r.types = m.types /\ r.funcs = m.funcs /\ r.mdnodes = m.mdnodes
      /\ r.consts = m.consts /\ r.functions = m.functions
      /\ DOMAIN r = ModuleFields
    BY <1>1 DEF HasLists, ModuleFields
<1>3. /\ IsList(r.attrs) /\ n \in Nat /\ Len(r.attrs) = n + 1
      /\ r.attrs[n + 1] = e
    BY <1>1, <1>2, AppendList DEF HasLists
<1>4. HasLists(r)
    BY <1>1, <1>2, <1>3 DEF HasLists
<1>5. Grows(m, r)
    BY <1>1, <1>2, LongerByOne, LongerSelf DEF Grows, HasLists
<1>6. AttrsAreSound(r)
    <2>1. \A i, j \in 1 .. Len(m.attrs) : m.attrs[i] = m.attrs[j] => i = j
        BY DEF IsSound, AttrsAreSound
    <2>2. IsList(m.attrs)
        BY <1>1 DEF HasLists
    <2> QED
        BY <1>2, <2>1, <2>2, StillDistinct DEF AttrsAreSound
<1>7. IsSound(r)
    BY <1>2, <1>4, <1>5, <1>6, KeptParts, SoundParts
<1> QED
    BY <1>3, <1>5, <1>7

(* A new function                                                          *)
LEMMA GrowFuncs ==
    ASSUME NEW m, IsSound(m), NEW f, IsFunctionType(m, f.type),
           f.attr_set \in (IF f.decl THEN 1 ELSE 0) .. Len(m.attrs),
           NEW r, r = [m EXCEPT !.funcs = Append(@, f)]
    PROVE  /\ IsSound(r) /\ Grows(m, r)
           /\ Len(m.funcs) \in Nat /\ Len(r.funcs) = Len(m.funcs) + 1
           /\ r.funcs[Len(m.funcs) + 1] = f
           /\ r.functions = m.functions
<1> DEFINE n == Len(m.funcs)
<1>1. HasLists(m)
    BY SoundHasLists
<1>2. /\ r.funcs = Append(m.funcs, f)
      /\ r.types = m.types /\ r.attrs = m.attrs /\ r.mdnodes = m.mdnodes
      /\ r.consts = m.consts /\ r.functions = m.functions
      /\ DOMAIN r = ModuleFields
    BY <1>1 DEF HasLists, ModuleFields
<1>3. /\ IsList(r.funcs) /\ n \in Nat /\ Len(r.funcs) = n + 1
      /\ \A i \in 1 .. n : r.funcs[i] = m.funcs[i]
      /\ r.funcs[n + 1] = f
    BY <1>1, <1>2, AppendList DEF HasLists
<1>4. HasLists(r)
    BY <1>1, <1>2, <1>3 DEF HasLists
<1>5. Grows(m, r)
    BY <1>1, <1>2, LongerByOne, LongerSelf DEF Grows, HasLists
<1> HIDE DEF n
<1>6. FuncsAreSound(r)
    <2>1. FuncsAreSound(m)
        BY DEF IsSound
    <2>2. ASSUME NEW i \in 1 .. Len(r.funcs)
          PROVE  /\ IsFunctionType(r, r.funcs[i].type)
                 /\ r.funcs[i].attr_set
                       \in (IF r.funcs[i].decl THEN 1 ELSE 0) .. Len(r.attrs)
        <3>1. CASE i = n + 1
            BY <1>1, <1>3, <1>4, <1>5, <3>1, FuncsStay
        <3>2. CASE i # n + 1
            <4>1. i \in 1 .. n
                BY <1>3, <3>2
            <4>2. /\ IsFunctionType(m, m.funcs[i].type)
                  /\ m.funcs[i].attr_set
                        \in (IF m.funcs[i].decl THEN 1 ELSE 0) .. Len(m.attrs)
                BY <2>1, <4>1 DEF FuncsAreSound, n
            <4>3. r.funcs[i] = m.funcs[i]
                BY <1>3, <4>1
            <4> DEFINE g == m.funcs[i]
            <4>4. /\ IsFunctionType(m, g.type)
                  /\ g.attr_set \in (IF g.decl THEN 1 ELSE 0) .. Len(m.attrs)
                BY <4>2
            <4> HIDE DEF g
            <4>5. /\ IsFunctionType(r, g.type)
                  /\ g.attr_set \in (IF g.decl THEN 1 ELSE 0) .. Len(r.attrs)
                BY <1>1, <1>4, <1>5, <4>4, FuncsStay
            <4> QED
                BY <4>3, <4>5 DEF g
        <3> QED
            BY <3>1, <3>2
    <2> QED
        BY <2>2 DEF FuncsAreSound
<1>7. IsSound(r)
    BY <1>2, <1>4, <1>5, <1>6, KeptParts, SoundParts
<1> QED
    BY <1>2, <1>3, <1>5, <1>7 DEF n

(* A new entry of the tree of functions                                    *)
LEMMA GrowFunctions ==
    ASSUME NEW m, IsSound(m), NEW i \in 1 .. Len(m.funcs), NEW name, NEW ov,
           IsPrototype(m, m.funcs[i], name, ov),
           \A f \in m.functions : ~ (f.name = name /\ f.overload = ov),
           NEW r, r = [m EXCEPT !.functions =
                          @ \union {[name |-> name, overload |-> ov,
                                     func |-> <<"func", i>>]}]
    PROVE  /\ IsSound(r) /\ Grows(m, r)
           /\ HasFunction(r, name, ov, <<"func", i>>)
<1> DEFINE e == [name |-> name, overload |-> ov, func |-> <<"func", i>>]
<1>1. HasLists(m)
    BY SoundHasLists
<1>2. /\ r.functions = m.functions \union {e}
      /\ r.types = m.types /\ r.attrs = m.attrs /\ r.mdnodes = m.mdnodes
      /\ r.consts = m.consts /\ r.funcs = m.funcs
      /\ DOMAIN r = ModuleFields
    BY <1>1 DEF HasLists, ModuleFields
<1>3. HasLists(r)
    BY <1>1, <1>2 DEF HasLists
<1>4. Grows(m, r)
    BY <1>2, LongerSelf DEF Grows
<1>5. PrototypesAreSound(m) /\ FuncsAreSound(m)
    BY DEF IsSound
<1>6. \A nm, o : \A j \in 1 .. Len(m.funcs) :
          IsPrototype(m, m.funcs[j], nm, o) => IsPrototype(r, r.funcs[j], nm, o)
    <2>1. \A j \in 1 .. Len(m.funcs) : m.funcs[j].type \in Ids(m)
        BY <1>5 DEF FuncsAreSound, IsFunctionType
    <2> QED
        BY <1>1, <1>2, <1>3, <1>4, <2>1, PrototypeStays
<1>7. ASSUME NEW f \in r.functions
      PROVE  \E j \in 1 .. Len(r.funcs) :
                /\ f = [name |-> f.name, overload |-> f.overload,
                        func |-> <<"func", j>>]
                /\ IsPrototype(r, r.funcs[j], f.name, f.overload)
    <2>1. CASE f \in m.functions
        <3>1. PICK j \in 1 .. Len(m.funcs) :
                    /\ f = [name |-> f.name, overload |-> f.overload,
                            func |-> <<"func", j>>]
                    /\ IsPrototype(m, m.funcs[j], f.name, f.overload)
            BY <1>5, <2>1 DEF PrototypesAreSound
        <3> QED
            BY <1>2, <1>6, <3>1
    <2>2. CASE f = e
        <3>1. f.name = name /\ f.overload = ov
            BY <2>2
        <3>2. IsPrototype(r, r.funcs[i], name, ov)
            BY <1>6
        <3> QED
            BY <1>2, <2>2, <3>1, <3>2
    <2> QED
        BY <1>2, <2>1, <2>2
<1>8. \A f, g \in r.functions :
         f.name = g.name /\ f.overload = g.overload => f = g
    <2>1. e.name = name /\ e.overload = ov
        OBVIOUS
    <2> HIDE DEF e
    <2> QED
        BY <1>2, <1>5, <2>1 DEF PrototypesAreSound
<1>9. PrototypesAreSound(r)
    BY <1>7, <1>8 DEF PrototypesAreSound
<1>10. IsSound(r)
    BY <1>2, <1>3, <1>4, <1>9, KeptParts, SoundParts
<1> QED
    BY <1>2, <1>4, <1>10 DEF HasFunction
-----------------------------------------------------------------------------
(* Types.  A request leaves a sound module that has grown, and the answer  *)
(* is right; a request that the module can answer leaves it alone.         *)
Gains(m, r) == IsSound(r.md) /\ Grows(m, r.md)

LEMMA GainsTwice ==
    ASSUME NEW m, NEW r, Gains(m, r), NEW q, Gains(r.md, q)
    PROVE  Gains(m, q)
BY GrowsTransitive DEF Gains

LEMMA FirstPlace ==
    ASSUME NEW l, IsList(l), NEW e
    PROVE  /\ Places(l, e) = {} => \A i \in 1 .. Len(l) : l[i] # e
           /\ Places(l, e) # {} => /\ First(Places(l, e)) \in 1 .. Len(l)
                                   /\ l[First(Places(l, e))] = e
           /\ \A i \in 1 .. Len(l) :
                 l[i] = e /\ (\A j \in 1 .. Len(l) : l[j] = e => i <= j)
                    => Places(l, e) # {} /\ First(Places(l, e)) = i
<1> DEFINE S == Places(l, e)
<1>1. Len(l) \in Nat /\ S = {i \in 1 .. Len(l) : l[i] = e}
    BY ListType DEF Places
<1> HIDE DEF S
<1>2. S = {} => \A i \in 1 .. Len(l) : l[i] # e
    BY <1>1
<1>3. S # {} => First(S) \in 1 .. Len(l) /\ l[First(S)] = e
    BY <1>1, LeastPlace
<1>4. ASSUME NEW i \in 1 .. Len(l), l[i] = e,
             \A j \in 1 .. Len(l) : l[j] = e => i <= j
      PROVE  S # {} /\ First(S) = i
    <2>1. i \in S /\ S \subseteq Nat /\ \A j \in S : i <= j
        BY <1>1, <1>4
    <2> QED
        BY <2>1, FirstIs
<1> QED
    BY <1>2, <1>3, <1>4 DEF S

LEMMA OnlyPlace ==
    ASSUME NEW l, IsList(l), NEW i \in 1 .. Len(l),
           \A j \in 1 .. Len(l) : l[j] = l[i] => j = i
    PROVE  Places(l, l[i]) # {} /\ First(Places(l, l[i])) = i
<1>1. Len(l) \in Nat
    BY ListType
<1>2. \A j \in 1 .. Len(l) : l[j] = l[i] => i <= j
    BY <1>1
<1> QED
    BY <1>2, FirstPlace

LEMMA GetType ==
    ASSUME NEW m, IsSound(m),
           NEW t, t.kind # "function", RefersTo(t, Len(m.types)),
           NEW r, r = get_type(m, t)
    PROVE  Gains(m, r) /\ HasType(r.md, t, r.is)
<1>1. HasLists(m) /\ IsList(m.types)
    BY SoundHasLists DEF HasLists
<1>2. CASE Places(m.types, t) # {}
    <2> DEFINE i == First(Places(m.types, t))
    <2>1. i \in 1 .. Len(m.types) /\ m.types[i] = t
        BY <1>1, <1>2, FirstPlace
    <2>2. r.md = m /\ r.is = i - 1
        BY <1>2 DEF get_type, Answer
    <2> HIDE DEF i
    <2>3. Len(m.types) \in Nat /\ i - 1 + 1 = i /\ i - 1 \in Ids(m)
        BY <1>1, <2>1, ListType DEF Ids
    <2> QED
        BY <2>1, <2>2, <2>3, GrowsReflexive DEF Gains, HasType
<1>3. CASE Places(m.types, t) = {}
    <2>1. \A i \in 1 .. Len(m.types) : m.types[i] # t
        BY <1>1, <1>3, FirstPlace
    <2>2. r.md = [m EXCEPT !.types = Append(@, t)] /\ r.is = Len(m.types)
        BY <1>3 DEF get_type, create_type, Answer
    <2> QED
        BY <2>1, <2>2, GrowTypes DEF Gains
<1> QED
    BY <1>2, <1>3

LEMMA GetTypeKnown ==
    ASSUME NEW m, IsSound(m), NEW t, t.kind # "function",
           NEW id, HasType(m, t, id)
    PROVE  get_type(m, t) = Answer(m, id)
<1> DEFINE i == id + 1
<1>1. IsList(m.types) /\ Len(m.types) \in Nat
    BY SoundHasLists, ListType DEF HasLists
<1>2. i \in 1 .. Len(m.types) /\ m.types[i] = t /\ i - 1 = id
    BY <1>1 DEF HasType, Ids
<1> HIDE DEF i
<1>3. \A j \in 1 .. Len(m.types) : m.types[j] = m.types[i] => j = i
    BY <1>2 DEF IsSound, TypesAreSound
<1>4. Places(m.types, t) # {} /\ First(Places(m.types, t)) = i
    BY <1>1, <1>2, <1>3, OnlyPlace
<1> QED
    BY <1>2, <1>4 DEF get_type

LEMMA RefersToMore ==
    ASSUME NEW n \in Nat, NEW k \in Nat, n <= k, NEW t, RefersTo(t, n)
    PROVE  RefersTo(t, k)
<1>1. 0 .. n - 1 \subseteq 0 .. k - 1
    OBVIOUS
<1>2. \A s \in Seq(0 .. n - 1) : s \in Seq(0 .. k - 1)
    BY <1>1
<1> QED
    BY <1>1, <1>2 DEF RefersTo

LEMMA ScalarType ==
    ASSUME NEW t \in Scalars
    PROVE  /\ t.kind \in {"void", "int", "float"}
           /\ t.kind # "function" /\ \A n : RefersTo(t, n)
           /\ t # Void => t.bits \in {1, 8, 16, 32, 64}
<1>1. t.kind \in {"void", "int", "float"}
    BY DEF Scalars, Void, IntType, FloatType
<1>2. t # Void => t.bits \in {1, 8, 16, 32, 64}
    BY DEF Scalars, Void, IntType, FloatType
<1> QED
    BY <1>1, <1>2 DEF RefersTo

LEMMA TypeLeaves ==
    ASSUME NEW m, IsSound(m), NEW t
    PROVE  /\ get_type(m, t).md.consts = m.consts
           /\ get_type(m, t).md.functions = m.functions
<1>1. DOMAIN m = ModuleFields
    BY DEF IsSound
<1> QED
    BY <1>1 DEF get_type, create_type, Answer, ModuleFields

LEMMA TypesGrowSteps ==
    /\ \A m : TypesGrow(m, m)
    /\ \A m1, m2, m3 :
          TypesGrow(m1, m2) /\ TypesGrow(m2, m3) => TypesGrow(m1, m3)
BY GrowsReflexive, GrowsTransitive DEF TypesGrow

LEMMA TypeRules == Types!Rules(0)
<1>1. \A m1, m2, e : IsSound(m1) /\ IsSound(m2) /\ TypesGrow(m1, m2)
                     /\ MayType(0, m1, e) => MayType(0, m2, e)
    BY SoundHasLists, Lengths, RefersToMore DEF MayType, TypesGrow
<1>2. \A m1, m2, e, a : IsSound(m1) /\ IsSound(m2) /\ TypesGrow(m1, m2)
                        /\ IsType(0, m1, e, a) => IsType(0, m2, e, a)
    BY SoundHasLists, TypeStays DEF IsType, TypesGrow
<1>3. \A m, e : IsSound(m) /\ MayType(0, m, e) =>
                   /\ IsSound(CallType(0, m, e).md)
                   /\ TypesGrow(m, CallType(0, m, e).md)
                   /\ IsType(0, CallType(0, m, e).md, e, CallType(0, m, e).is)
    BY GetType, TypeLeaves DEF MayType, CallType, IsType, Gains, TypesGrow
<1> QED
    BY <1>1, <1>2, <1>3, TypesGrowSteps DEF Types!Rules

LEMMA EachType ==
    ASSUME NEW m, NEW ts
    PROVE  Each(get_type, m, ts) = Types!Chain(0, m, ts)
BY DEF Each, Types!Chain, CallType, Answer

LEMMA GetTypes ==
    ASSUME NEW m, IsSound(m), NEW ts, Len(ts) \in Nat,
           \A k \in 1 .. Len(ts) : ts[k] \in Scalars,
           NEW r, r = Each(get_type, m, ts)
    PROVE  /\ Gains(m, r) /\ r.md.functions = m.functions
           /\ r.is \in Seq(Ids(r.md))
           /\ HasTypes(r.md, ts, r.is)
<1>1. \A k \in 1 .. Len(ts) : MayType(0, m, ts[k])
    BY ScalarType DEF MayType
<1>2. /\ IsSound(r.md) /\ TypesGrow(m, r.md)
      /\ Types!IsList(r.is) /\ Len(r.is) = Len(ts)
      /\ \A k \in 1 .. Len(ts) : IsType(0, r.md, ts[k], r.is[k])
    BY <1>1, EachType, TypeRules, Types!ChainHolds
<1>3. \A k \in 1 .. Len(ts) : HasType(r.md, ts[k], r.is[k])
    BY <1>2 DEF IsType
<1>4. PICK S : r.is \in Seq(S)
    BY <1>2 DEF Types!IsList
<1>5. \A k \in 1 .. Len(r.is) : r.is[k] \in Ids(r.md)
    BY <1>2, <1>3 DEF HasType
<1>6. r.is \in Seq(Ids(r.md))
    BY <1>4, <1>5
<1> QED
    BY <1>2, <1>3, <1>6 DEF Gains, HasTypes, TypesGrow

LEMMA GetTypesKnown ==
    ASSUME NEW m, IsSound(m), NEW ts, Len(ts) \in Nat,
           \A k \in 1 .. Len(ts) : ts[k] \in Scalars,
           NEW S, NEW ids \in Seq(S), HasTypes(m, ts, ids)
    PROVE  Each(get_type, m, ts) = Answer(m, ids)
<1>1. Len(ids) = Len(ts)
    BY DEF HasTypes
<1>2. ASSUME NEW k \in 1 .. Len(ts)
      PROVE  CallType(0, m, ts[k]) = [md |-> m, is |-> ids[k]]
    <2>1. HasType(m, ts[k], ids[k]) /\ ts[k].kind # "function"
        BY ScalarType DEF HasTypes
    <2> QED
        BY <2>1, GetTypeKnown DEF CallType, Answer
<1>3. Types!Chain(0, m, ts) = [md |-> m, is |-> ids]
    BY <1>1, <1>2, Types!ChainStays
<1> QED
    BY <1>3, EachType DEF Answer

(* A struct of scalars                                                     *)
IsStruct(s) == s.elems \in Seq(Scalars)

LEMMA FieldsOfStruct ==
    \A s : IsStruct(s) => /\ Len(s.elems) \in Nat
                          /\ \A k \in 1 .. Len(s.elems) : s.elems[k] \in Scalars
BY DEF IsStruct

LEMMA GetStructType ==
    ASSUME NEW m, IsSound(m), NEW name, NEW ids \in Seq(Ids(m)),
           NEW r, r = dxil_module_get_struct_type(m, name, ids)
    PROVE  Gains(m, r)
           /\ HasType(r.md, [kind |-> "struct", name |-> name, elems |-> ids], r.is)
<1> DEFINE t == [kind |-> "struct", name |-> name, elems |-> ids]
<1>1. t.kind = "struct" /\ t.elems = ids
    OBVIOUS
<1>2. RefersTo(t, Len(m.types)) /\ t.kind # "function"
    BY <1>1 DEF RefersTo, Ids
<1>3. r = get_type(m, t)
    BY DEF dxil_module_get_struct_type
<1> HIDE DEF t
<1> QED
    BY <1>2, <1>3, GetType DEF t

LEMMA GetStructKnown1 ==
    ASSUME NEW m, IsSound(m), NEW name, NEW ids, NEW id,
           HasType(m, [kind |-> "struct", name |-> name, elems |-> ids], id)
    PROVE  dxil_module_get_struct_type(m, name, ids) = Answer(m, id)
<1>1. [kind |-> "struct", name |-> name, elems |-> ids].kind # "function"
    OBVIOUS
<1> QED
    BY <1>1, GetTypeKnown DEF dxil_module_get_struct_type

LEMMA StructIs ==
    ASSUME NEW m, HasLists(m), NEW s, NEW ids, HasTypes(m, s.elems, ids), NEW id,
           HasType(m, [kind |-> "struct", name |-> s.name, elems |-> ids], id)
    PROVE  HasStruct(m, s, id)
<1> DEFINE t == [kind |-> "struct", name |-> s.name, elems |-> ids]
           i == id + 1
<1>1. Len(m.types) \in Nat
    BY LengthsOf
<1>2. i \in 1 .. Len(m.types) /\ id = i - 1 /\ m.types[i] = t
    BY <1>1 DEF HasType, Ids
<1>3. t.kind = "struct" /\ t.elems = ids
    OBVIOUS
<1>4. t = [kind |-> "struct", name |-> s.name, elems |-> t.elems]
    OBVIOUS
<1> HIDE DEF t, i
<1> QED
    BY <1>2, <1>3, <1>4 DEF HasStruct

LEMMA GetStructs ==
    ASSUME NEW m, IsSound(m), NEW s, IsStruct(s), NEW r, r = GetStruct(m, s)
    PROVE  Gains(m, r) /\ HasStruct(r.md, s, r.is)
<1> DEFINE e == Each(get_type, m, s.elems)
           q == dxil_module_get_struct_type(e.md, s.name, e.is)
<1>1. Gains(m, e) /\ e.is \in Seq(Ids(e.md)) /\ HasTypes(e.md, s.elems, e.is)
    BY FieldsOfStruct, GetTypes
<1>2. r = q
    BY DEF GetStruct
<1> HIDE DEF e
<1>3. /\ Gains(e.md, q)
      /\ HasType(q.md, [kind |-> "struct", name |-> s.name, elems |-> e.is], q.is)
    BY <1>1, GetStructType DEF Gains
<1> HIDE DEF q
<1>4. HasTypes(q.md, s.elems, e.is)
    BY <1>1, <1>3, TypesStay, SoundHasLists DEF Gains
<1>5. HasStruct(q.md, s, q.is)
    BY <1>3, <1>4, StructIs, SoundHasLists DEF Gains
<1> QED
    BY <1>1, <1>2, <1>3, <1>5, GainsTwice

LEMMA GetStructsKnown ==
    ASSUME NEW m, IsSound(m), NEW s, IsStruct(s), NEW id, HasStruct(m, s, id)
    PROVE  GetStruct(m, s) = Answer(m, id)
<1>1. PICK i \in 1 .. Len(m.types) :
          /\ id = i - 1
          /\ m.types[i].kind = "struct"
          /\ m.types[i] = [kind |-> "struct", name |-> s.name,
                           elems |-> m.types[i].elems]
          /\ HasTypes(m, s.elems, m.types[i].elems)
    BY DEF HasStruct
<1> DEFINE ids == m.types[i].elems
<1>2. ids \in Seq(0 .. i - 2)
    <2>1. RefersTo(m.types[i], i - 1)
        BY DEF IsSound, TypesAreSound
    <2>2. Len(m.types) \in Nat
        BY SoundHasLists, LengthsOf
    <2>3. i - 1 - 1 = i - 2
        BY <2>2
    <2> QED
        BY <1>1, <2>1, <2>3 DEF RefersTo
<1>3. HasTypes(m, s.elems, ids)
    BY <1>1
<1>4. HasType(m, [kind |-> "struct", name |-> s.name, elems |-> ids], id)
    <2>1. Len(m.types) \in Nat
        BY SoundHasLists, LengthsOf
    <2>2. id \in Ids(m) /\ id + 1 = i
        BY <1>1, <2>1 DEF Ids
    <2> QED
        BY <1>1, <2>2 DEF HasType
<1> HIDE DEF ids
<1>5. Each(get_type, m, s.elems) = Answer(m, ids)
    BY <1>2, <1>3, FieldsOfStruct, GetTypesKnown
<1>6. dxil_module_get_struct_type(m, s.name, ids) = Answer(m, id)
    BY <1>4, GetStructKnown1
<1>7. Answer(m, ids).md = m /\ Answer(m, ids).is = ids
    BY DEF Answer
<1> QED
    BY <1>5, <1>6, <1>7 DEF GetStruct

LEMMA StructsOfLetters ==
    ASSUME NEW letter \in Structs, NEW ov \in Scalars,
           letter \in {"B", "R"} => ov # Void
    PROVE  IsStruct(StructOf(letter, ov))
<1> DEFINE n == 128 \div ov.bits
           s == StructOf(letter, ov)
<1>1. IntType(32) \in Scalars /\ IntType(8) \in Scalars /\ FloatType(32) \in Scalars
    BY DEF Scalars
<1>2. \A k \in {2, 3, 4} : /\ Ints32(k) \in Seq(Scalars) /\ Len(Ints32(k)) = k
    BY <1>1 DEF Ints32
<1>3. \A l \in Seq(Scalars) : Len(l) \in Nat /\ \A k \in 1 .. Len(l) : l[k] \in Scalars
    OBVIOUS
<1>4. CASE letter = "B"
    <2>1. n \in Nat
        <3>1. ov.bits \in {1, 8, 16, 32, 64}
            BY <1>4, ScalarType
        <3> QED
            BY <3>1
    <2>2. s.elems = [i \in 1 .. n |-> ov]
        BY <1>4 DEF StructOf
    <2> HIDE DEF n, s
    <2>3. s.elems \in Seq(Scalars)
        BY <2>1, <2>2
    <2> QED
        BY <1>3, <2>3 DEF IsStruct, s
<1> HIDE DEF n
<1>5. CASE letter = "R"
    <2>1. s.elems = <<ov, ov, ov, ov, IntType(32)>>
        BY <1>5 DEF StructOf
    <2>2. s.elems \in Seq(Scalars)
        BY <1>1, <2>1
    <2> QED
        BY <1>3, <2>2 DEF IsStruct
<1>6. CASE letter = "D" \/ letter = "F"
    <2>1. s.elems = Ints32(4)
        BY <1>6 DEF StructOf
    <2> QED
        BY <1>2, <1>3, <2>1 DEF IsStruct
<1>7. CASE letter = "G" \/ letter = "P"
    <2>1. s.elems = Ints32(2)
        BY <1>7 DEF StructOf
    <2> QED
        BY <1>2, <1>3, <2>1 DEF IsStruct
<1>8. CASE letter = "S"
    <2>1. s.elems = <<FloatType(32), FloatType(32)>>
        BY <1>8 DEF StructOf
    <2>2. s.elems \in Seq(Scalars)
        BY <1>1, <2>1
    <2> QED
        BY <1>3, <2>2 DEF IsStruct
<1>9. CASE letter = "#"
    <2>1. s.elems = Ints32(3) \o <<IntType(8)>>
        BY <1>9 DEF StructOf
    <2>2. Ints32(3) \in Seq(Scalars) /\ <<IntType(8)>> \in Seq(Scalars)
        BY <1>1, <1>2
    <2>3. s.elems \in Seq(Scalars)
        BY <2>1, <2>2
    <2> QED
        BY <1>3, <2>3 DEF IsStruct
<1> QED
    BY <1>4, <1>5, <1>6, <1>7, <1>8, <1>9 DEF Structs

(* The handle, and the type of a letter                                    *)
LEMMA GetHandle ==
    ASSUME NEW m, IsSound(m), NEW r, r = dxil_module_get_handle_type(m)
    PROVE  Gains(m, r) /\ HasHandle(r.md, r.is)
<1> DEFINE t1 == IntType(8)
           b == get_type(m, t1)
           t2 == [kind |-> "pointer", target |-> b.is]
           p == get_type(b.md, t2)
           q == dxil_module_get_struct_type(p.md, <<72>>, <<p.is>>)
<1>1. t1.kind = "int" /\ t2.kind = "pointer" /\ t2.target = b.is
    BY DEF IntType
<1>2. r = q
    BY DEF dxil_module_get_handle_type, dxil_module_get_pointer_type
<1> HIDE DEF t1, t2
<1>3. Gains(m, b) /\ HasType(b.md, t1, b.is)
    BY <1>1, GetType DEF RefersTo
<1> HIDE DEF b
<1>4. RefersTo(t2, Len(b.md.types))
    BY <1>1, <1>3 DEF RefersTo, HasType, Ids
<1>5. Gains(b.md, p) /\ HasType(p.md, t2, p.is)
    BY <1>1, <1>3, <1>4, GetType DEF Gains
<1> HIDE DEF p
<1>6. <<p.is>> \in Seq(Ids(p.md))
    BY <1>5 DEF HasType
<1>7. /\ Gains(p.md, q)
      /\ HasType(q.md, [kind |-> "struct", name |-> <<72>>, elems |-> <<p.is>>], q.is)
    BY <1>5, <1>6, GetStructType DEF Gains
<1> HIDE DEF q
<1>8. HasLists(b.md) /\ HasLists(p.md) /\ HasLists(q.md)
    BY <1>3, <1>5, <1>7, SoundHasLists DEF Gains
<1>9. HasType(q.md, t1, b.is) /\ HasType(q.md, t2, p.is)
    <2>1. HasType(p.md, t1, b.is)
        BY <1>3, <1>5, <1>8, TypeStays DEF Gains
    <2> QED
        BY <1>5, <1>7, <1>8, <2>1, TypeStays DEF Gains
<1>10. b.is \in Ids(q.md) /\ p.is \in Ids(q.md)
    BY <1>9 DEF HasType
<1>11. HasHandle(q.md, q.is)
    BY <1>7, <1>9, <1>10 DEF HasHandle, t1, t2
<1>12. Gains(m, q)
    BY <1>3, <1>5, <1>7, GainsTwice
<1> QED
    BY <1>2, <1>11, <1>12

LEMMA ScalarOfLetters ==
    ASSUME NEW letter \in Letters, letter # "@", letter \notin Structs,
           NEW ov \in Scalars
    PROVE  ScalarOf(letter, ov) \in Scalars
<1>1. /\ Void \in Scalars
      /\ \A b \in {1, 8, 16, 32, 64} : IntType(b) \in Scalars
      /\ \A b \in {16, 32, 64} : FloatType(b) \in Scalars
    BY DEF Scalars
<1>2. letter \in {"v", "b", "c", "h", "i", "l", "e", "f", "g", "O"}
    BY DEF Letters, Structs
<1>3. CASE letter \in {"v", "b", "c", "h", "i"}
    BY <1>1, <1>3 DEF ScalarOf
<1>4. CASE letter \in {"l", "e", "f", "g", "O"}
    BY <1>1, <1>4 DEF ScalarOf
<1> QED
    BY <1>2, <1>3, <1>4

LEMMA GetLetter ==
    ASSUME NEW m, IsSound(m), NEW letter, NEW ov, MayLetter(ov, m, letter),
           NEW r, r = get_type_from_string(m, letter, ov)
    PROVE  Gains(m, r) /\ HasLetter(r.md, letter, ov, r.is)
<1>1. ov \in Scalars /\ letter \in Letters
    BY DEF MayLetter
<1>2. CASE letter = "@"
    <2>1. r = dxil_module_get_handle_type(m)
        BY <1>2 DEF get_type_from_string
    <2> QED
        BY <1>2, <2>1, GetHandle DEF HasLetter
<1>3. CASE letter # "@" /\ letter \in Structs
    <2>1. r = GetStruct(m, StructOf(letter, ov))
        BY <1>3 DEF get_type_from_string
    <2>2. IsStruct(StructOf(letter, ov))
        BY <1>1, <1>3, StructsOfLetters DEF MayLetter
    <2>3. Gains(m, r) /\ HasStruct(r.md, StructOf(letter, ov), r.is)
        BY <2>1, <2>2, GetStructs
    <2> QED
        BY <1>3, <2>3 DEF HasLetter
<1>4. CASE letter # "@" /\ letter \notin Structs
    <2> DEFINE t == ScalarOf(letter, ov)
    <2>1. r = get_type(m, t)
        BY <1>4 DEF get_type_from_string
    <2>2. t \in Scalars
        BY <1>1, <1>4, ScalarOfLetters
    <2> HIDE DEF t
    <2>3. t.kind # "function" /\ RefersTo(t, Len(m.types))
        BY <2>2, ScalarType
    <2>4. Gains(m, r) /\ HasType(r.md, t, r.is)
        BY <2>1, <2>3, GetType
    <2> QED
        BY <1>4, <2>4 DEF HasLetter, t
<1> QED
    BY <1>2, <1>3, <1>4

LEMMA LetterId ==
    ASSUME NEW m, HasLists(m), NEW letter, NEW ov, NEW id,
           HasLetter(m, letter, ov, id)
    PROVE  id \in Ids(m)
<1>1. CASE letter = "@"
    BY <1>1 DEF HasLetter, HasHandle, HasType
<1>2. CASE letter # "@" /\ letter \in Structs
    <2>1. PICK i \in 1 .. Len(m.types) : id = i - 1
        BY <1>2 DEF HasLetter, HasStruct
    <2>2. Len(m.types) \in Nat
        BY LengthsOf
    <2> QED
        BY <2>1, <2>2 DEF Ids
<1>3. CASE letter # "@" /\ letter \notin Structs
    BY <1>3 DEF HasLetter, HasType
<1> QED
    BY <1>1, <1>2, <1>3

(* A resource                                                              *)
LEMMA GetResource ==
    ASSUME NEW m, IsSound(m), NEW res, res.comp \in Scalars,
           NEW r, r = dxil_module_get_res_type(m, res)
    PROVE  Gains(m, r) /\ HasResource(r.md, res, r.is)
<1> DEFINE c == get_type(m, res.comp)
           t == [kind |-> "vector", num |-> res.num, elem |-> c.is]
           v == IF res.num = 1 THEN c ELSE get_type(c.md, t)
           q == dxil_module_get_struct_type(v.md, res.name, <<v.is>>)
<1>1. r = q
    BY DEF dxil_module_get_res_type
<1>2. res.comp.kind # "function" /\ RefersTo(res.comp, Len(m.types))
    BY ScalarType
<1>3. Gains(m, c) /\ HasType(c.md, res.comp, c.is)
    BY <1>2, GetType
<1>4. t.kind = "vector" /\ t.elem = c.is
    OBVIOUS
<1> HIDE DEF c, t
<1>5. RefersTo(t, Len(c.md.types)) /\ t.kind # "function"
    BY <1>3, <1>4 DEF RefersTo, HasType, Ids
<1>6. /\ Gains(c.md, v) /\ v.is \in Ids(v.md)
      /\ IF res.num = 1 THEN v.is = c.is ELSE HasType(v.md, t, v.is)
    <2>1. CASE res.num = 1
        BY <1>3, <2>1, GrowsReflexive DEF Gains, HasType
    <2>2. CASE res.num # 1
        <3>1. v = get_type(c.md, t)
            BY <2>2
        <3>2. Gains(c.md, v) /\ HasType(v.md, t, v.is)
            BY <1>3, <1>5, <3>1, GetType DEF Gains
        <3> QED
            BY <2>2, <3>2 DEF HasType
    <2> QED
        BY <2>1, <2>2
<1> HIDE DEF v
<1>7. /\ Gains(v.md, q)
      /\ HasType(q.md, [kind |-> "struct", name |-> res.name, elems |-> <<v.is>>], q.is)
    <2>1. <<v.is>> \in Seq(Ids(v.md)) /\ IsSound(v.md)
        BY <1>6 DEF Gains
    <2> QED
        BY <2>1, GetStructType
<1> HIDE DEF q
<1>8. HasLists(c.md) /\ HasLists(v.md) /\ HasLists(q.md)
    BY <1>3, <1>6, <1>7, SoundHasLists DEF Gains
<1>9. /\ HasType(q.md, res.comp, c.is)
      /\ IF res.num = 1 THEN v.is = c.is ELSE HasType(q.md, t, v.is)
    <2>1. HasType(v.md, res.comp, c.is)
        BY <1>3, <1>6, <1>8, TypeStays DEF Gains
    <2> QED
        BY <1>6, <1>7, <1>8, <2>1, TypeStays DEF Gains
<1>10. c.is \in Ids(q.md) /\ v.is \in Ids(q.md)
    <2>1. c.is \in Ids(q.md)
        BY <1>9 DEF HasType
    <2>2. v.is \in Ids(q.md)
        BY <1>6, <1>7, <1>8, IdsStay DEF Gains
    <2> QED
        BY <2>1, <2>2
<1>11. HasResource(q.md, res, q.is)
    BY <1>7, <1>9, <1>10 DEF HasResource, t
<1>12. Gains(m, q)
    BY <1>3, <1>6, <1>7, GainsTwice
<1> QED
    BY <1>1, <1>11, <1>12

LEMMA GetResourceKnown ==
    ASSUME NEW m, IsSound(m), NEW res, res.comp \in Scalars,
           NEW id, HasResource(m, res, id)
    PROVE  dxil_module_get_res_type(m, res) = Answer(m, id)
<1>1. PICK c \in Ids(m), v \in Ids(m) :
          /\ HasType(m, res.comp, c)
          /\ IF res.num = 1 THEN v = c
             ELSE HasType(m, [kind |-> "vector", num |-> res.num, elem |-> c], v)
          /\ HasType(m, [kind |-> "struct", name |-> res.name,
                         elems |-> <<v>>], id)
    BY DEF HasResource
<1>2. get_type(m, res.comp) = Answer(m, c)
    BY <1>1, ScalarType, GetTypeKnown
<1> DEFINE t == [kind |-> "vector", num |-> res.num, elem |-> c]
<1>3. t.kind # "function"
    OBVIOUS
<1> HIDE DEF t
<1>4. res.num # 1 => get_type(m, t) = Answer(m, v)
    BY <1>1, <1>3, GetTypeKnown DEF t
<1>5. dxil_module_get_struct_type(m, res.name, <<v>>) = Answer(m, id)
    BY <1>1, GetStructKnown1
<1>6. \A x : Answer(m, x).md = m /\ Answer(m, x).is = x
    BY DEF Answer
<1> QED
    BY <1>1, <1>2, <1>4, <1>5, <1>6 DEF dxil_module_get_res_type, t
-----------------------------------------------------------------------------
(* Constants.                                                              *)
LEMMA GetConst ==
    ASSUME NEW m, IsSound(m), NEW c, IsTyped(m, c, Len(m.consts)),
           NEW r, r = get_const(m, c)
    PROVE  Gains(m, r) /\ HasConst(r.md, c, r.is)
<1>1. IsList(m.consts)
    BY SoundHasLists DEF HasLists
<1>2. CASE Places(m.consts, c) # {}
    <2> DEFINE i == First(Places(m.consts, c))
    <2>1. i \in 1 .. Len(m.consts) /\ m.consts[i] = c
        BY <1>1, <1>2, FirstPlace
    <2>2. r.md = m /\ r.is = Const(i)
        BY <1>2 DEF get_const, Answer
    <2> HIDE DEF i
    <2> QED
        BY <2>1, <2>2, GrowsReflexive DEF Gains, HasConst
<1>3. CASE Places(m.consts, c) = {}
    <2>1. \A i \in 1 .. Len(m.consts) : m.consts[i] # c
        BY <1>1, <1>3, FirstPlace
    <2>2. /\ r.md = [m EXCEPT !.consts = Append(@, c)]
          /\ r.is = Const(Len(m.consts) + 1)
        BY <1>3 DEF get_const, create_const, Answer
    <2> QED
        BY <2>1, <2>2, GrowConsts DEF Gains
<1> QED
    BY <1>2, <1>3

LEMMA GetConstKnown ==
    ASSUME NEW m, IsSound(m), NEW c, c.kind # "float", NEW v, HasConst(m, c, v)
    PROVE  get_const(m, c) = Answer(m, v)
<1>1. PICK i \in 1 .. Len(m.consts) : v = Const(i) /\ m.consts[i] = c
    BY DEF HasConst
<1>2. IsList(m.consts)
    BY SoundHasLists DEF HasLists
<1>3. \A j \in 1 .. Len(m.consts) : m.consts[j] = m.consts[i] => j = i
    BY <1>1 DEF IsSound, ConstsAreSound, IsNaNConst
<1>4. Places(m.consts, c) # {} /\ First(Places(m.consts, c)) = i
    BY <1>1, <1>2, <1>3, OnlyPlace
<1> QED
    BY <1>1, <1>4 DEF get_const

(* The type of a constant is one of the module.                            *)
LEMMA ScalarOfConst ==
    ASSUME NEW m, IsSound(m), NEW t, t.kind \in {"int", "float"},
           NEW r, r = get_type(m, t)
    PROVE  /\ Gains(m, r) /\ HasType(r.md, t, r.is)
           /\ r.is \in Ids(r.md) /\ r.md.types[r.is + 1] = t
<1>1. t.kind # "function" /\ RefersTo(t, Len(m.types))
    BY DEF RefersTo
<1> QED
    BY <1>1, GetType DEF HasType

LEMMA GetInt ==
    ASSUME NEW m, IsSound(m), NEW bits, NEW n, NEW r, r = get_int_const(m, bits, n)
    PROVE  Gains(m, r) /\ HasInt(r.md, bits, n, r.is)
<1> DEFINE i == IntType(bits)
           t == get_type(m, i)
           c == [type |-> t.is, kind |-> "int", value |-> n]
           q == get_const(t.md, c)
<1>1. r = q
    BY DEF get_int_const
<1>2. i.kind = "int" /\ c.type = t.is /\ c.kind = "int"
    BY DEF IntType
<1> HIDE DEF i, c
<1>3. /\ Gains(m, t) /\ HasType(t.md, i, t.is)
      /\ t.is \in Ids(t.md) /\ t.md.types[t.is + 1] = i
    BY <1>2, ScalarOfConst
<1> HIDE DEF t
<1>4. IsTyped(t.md, c, Len(t.md.consts))
    BY <1>2, <1>3 DEF IsTyped
<1>5. Gains(t.md, q) /\ HasConst(q.md, c, q.is)
    BY <1>3, <1>4, GetConst DEF Gains
<1> HIDE DEF q
<1>6. HasType(q.md, i, t.is)
    BY <1>3, <1>5, TypeStays, SoundHasLists DEF Gains
<1>7. HasInt(q.md, bits, n, q.is)
    <2>1. t.is \in Ids(q.md)
        BY <1>6 DEF HasType
    <2> QED
        BY <1>5, <1>6, <2>1 DEF HasInt, i, c
<1> QED
    BY <1>1, <1>3, <1>5, <1>7, GainsTwice

LEMMA GetIntKnown ==
    ASSUME NEW m, IsSound(m), NEW bits, NEW n, NEW v, HasInt(m, bits, n, v)
    PROVE  get_int_const(m, bits, n) = Answer(m, v)
<1>1. PICK t \in Ids(m) :
          /\ HasType(m, IntType(bits), t)
          /\ HasConst(m, [type |-> t, kind |-> "int", value |-> n], v)
    BY DEF HasInt
<1>2. IntType(bits).kind # "function"
    BY DEF IntType
<1>3. get_type(m, IntType(bits)) = Answer(m, t)
    BY <1>1, <1>2, GetTypeKnown
<1>4. get_const(m, [type |-> t, kind |-> "int", value |-> n]) = Answer(m, v)
    BY <1>1, GetConstKnown
<1>5. Answer(m, t).md = m /\ Answer(m, t).is = t
    BY DEF Answer
<1> QED
    BY <1>3, <1>4, <1>5 DEF get_int_const

LEMMA GetFloat ==
    ASSUME NEW m, IsSound(m), NEW bits, NEW n, <<bits, n>> \in Floats,
           NEW r, r = dxil_module_get_float_const(m, bits, n)
    PROVE  Gains(m, r) /\ HasFloat(r.md, bits, n, r.is)
<1> DEFINE f == FloatType(bits)
           t == get_type(m, f)
           same == {i \in DOMAIN m.consts : SameFloat(m.consts[i], t.is, bits, n)}
           c == [type |-> t.is, kind |-> "float", value |-> n]
           q == create_const(t.md, c)
<1>1. r = IF same # {} THEN Answer(t.md, Const(First(same))) ELSE q
    BY DEF dxil_module_get_float_const
<1>2. f.kind = "float" /\ f.bits = bits /\ c.type = t.is /\ c.kind = "float" /\ c.value = n
    BY DEF FloatType
<1>3. t.md.consts = m.consts
    BY TypeLeaves
<1>4. Len(m.consts) \in Nat /\ DOMAIN m.consts = 1 .. Len(m.consts)
    BY SoundHasLists, ListType DEF HasLists
<1> HIDE DEF f, c
<1>5. /\ Gains(m, t) /\ HasType(t.md, f, t.is)
      /\ t.is \in Ids(t.md) /\ t.md.types[t.is + 1] = f
    BY <1>2, ScalarOfConst
<1>6. \A i \in 1 .. Len(m.consts) :
          i \in same <=> SameFloat(m.consts[i], t.is, bits, n)
    BY <1>4
<1>7. same \subseteq 1 .. Len(m.consts)
    BY <1>4
<1> HIDE DEF t, same
<1>8. CASE same # {}
    <2> DEFINE i == First(same)
    <2>1. i \in same /\ \A j \in same : i <= j
        BY <1>4, <1>7, <1>8, LeastPlace
    <2>2. r.md = t.md /\ r.is = Const(i)
        BY <1>1, <1>8 DEF Answer
    <2> HIDE DEF i
    <2>3. i \in 1 .. Len(t.md.consts) /\ SameFloat(t.md.consts[i], t.is, bits, n)
        BY <1>3, <1>6, <1>7, <2>1
    <2>4. \A j \in 1 .. i - 1 : ~ SameFloat(t.md.consts[j], t.is, bits, n)
        <3> SUFFICES ASSUME NEW j \in 1 .. i - 1
                     PROVE  ~ SameFloat(m.consts[j], t.is, bits, n)
            BY <1>3
        <3>1. j \in 1 .. Len(m.consts) /\ ~ (i <= j)
            BY <1>3, <1>4, <2>3
        <3> QED
            BY <1>6, <2>1, <3>1
    <2>5. HasFirstFloat(t.md, bits, n, Const(i))
        BY <1>5, <2>3, <2>4 DEF HasFirstFloat, f
    <2>6. HasFloat(t.md, bits, n, Const(i))
        BY <2>3, <2>5 DEF HasFloat, SameFloat, FloatsEqual
    <2> QED
        BY <1>5, <2>2, <2>6 DEF Gains
<1>9. CASE same = {}
    <2> DEFINE i == Len(t.md.consts) + 1
    <2>1. r.md = [t.md EXCEPT !.consts = Append(@, c)] /\ r.is = Const(i)
        BY <1>1, <1>9 DEF create_const, Answer
    <2>2. \A j \in 1 .. Len(m.consts) : ~ SameFloat(m.consts[j], t.is, bits, n)
        BY <1>6, <1>9
    <2>3. IsNaN(bits, n) \/ SameFloat(c, t.is, bits, n)
        BY <1>2 DEF SameFloat, FloatsEqual
    <2>4. \/ \A j \in 1 .. Len(t.md.consts) : t.md.consts[j] # c
          \/ IsNaNConst(t.md, c)
        <3>1. IsNaN(bits, n) => IsNaNConst(t.md, c)
            BY <1>2, <1>5 DEF IsNaNConst
        <3> QED
            BY <1>3, <2>2, <2>3, <3>1
    <2>5. IsTyped(t.md, c, Len(t.md.consts))
        BY <1>2, <1>5 DEF IsTyped
    <2>6. Gains(t.md, r) /\ HasConst(r.md, c, r.is)
        <3> DEFINE before == t.md
                   after == r.md
        <3>1. IsSound(before)
            BY <1>5 DEF Gains
        <3>2. /\ IsTyped(before, c, Len(before.consts))
              /\ \/ \A j \in 1 .. Len(before.consts) : before.consts[j] # c
                 \/ IsNaNConst(before, c)
              /\ after = [before EXCEPT !.consts = Append(@, c)]
            BY <2>1, <2>4, <2>5
        <3> HIDE DEF before, after
        <3>3. /\ IsSound(after) /\ Grows(before, after)
              /\ HasConst(after, c, Const(Len(before.consts) + 1))
            BY <3>1, <3>2, GrowConsts
        <3> QED
            BY <2>1, <3>3 DEF Gains, before, after
    <2>7. i \in 1 .. Len(r.md.consts) /\ i - 1 = Len(m.consts) /\ r.md.consts[i] = c
        <3>1. PICK k \in 1 .. Len(r.md.consts) :
                  Const(i) = Const(k) /\ r.md.consts[k] = c
            BY <2>1, <2>6 DEF HasConst
        <3>2. k = i
            BY <3>1 DEF Const
        <3> QED
            BY <1>3, <1>4, <3>1, <3>2
    <2> HIDE DEF i
    <2>8. \A j \in 1 .. i - 1 : ~ SameFloat(r.md.consts[j], t.is, bits, n)
        <3>1. \A j \in 1 .. Len(t.md.consts) : r.md.consts[j] = t.md.consts[j]
            BY <2>6, ConstsStay DEF Gains
        <3> QED
            BY <1>3, <2>2, <2>7, <3>1
    <2>9. HasType(r.md, f, t.is) /\ t.is \in Ids(r.md)
        <3>1. HasType(r.md, f, t.is)
            BY <1>5, <2>6, TypeStays, SoundHasLists DEF Gains
        <3> QED
            BY <3>1 DEF HasType
    <2>10. HasFloat(r.md, bits, n, r.is)
        <3>1. CASE IsNaN(bits, n)
            BY <2>6, <2>9, <3>1 DEF HasFloat, HasNaN, f, c
        <3>2. CASE ~ IsNaN(bits, n)
            <4>1. HasFirstFloat(r.md, bits, n, r.is)
                BY <2>1, <2>3, <2>7, <2>8, <2>9, <3>2 DEF HasFirstFloat, f
            <4> QED
                BY <3>2, <4>1 DEF HasFloat
        <3> QED
            BY <3>1, <3>2
    <2> QED
        BY <1>5, <2>6, <2>10, GainsTwice
<1> QED
    BY <1>8, <1>9

LEMMA GetFloatKnown ==
    ASSUME NEW m, IsSound(m), NEW bits, NEW n, NEW v,
           ~ IsNaN(bits, n), HasFloat(m, bits, n, v)
    PROVE  dxil_module_get_float_const(m, bits, n) = Answer(m, v)
<1>1. PICK t \in Ids(m), i \in 1 .. Len(m.consts) :
          /\ HasType(m, FloatType(bits), t)
          /\ v = Const(i)
          /\ SameFloat(m.consts[i], t, bits, n)
          /\ \A j \in 1 .. i - 1 : ~ SameFloat(m.consts[j], t, bits, n)
    BY DEF HasFloat, HasFirstFloat
<1>2. FloatType(bits).kind # "function"
    BY DEF FloatType
<1>3. get_type(m, FloatType(bits)) = Answer(m, t)
    BY <1>1, <1>2, GetTypeKnown
<1>4. Answer(m, t).md = m /\ Answer(m, t).is = t
    BY DEF Answer
<1> DEFINE same == {j \in DOMAIN m.consts : SameFloat(m.consts[j], t, bits, n)}
<1>5. Len(m.consts) \in Nat /\ DOMAIN m.consts = 1 .. Len(m.consts)
    BY SoundHasLists, ListType DEF HasLists
<1>6. i \in same /\ same \subseteq Nat
    BY <1>1, <1>5
<1>7. \A j \in same : i <= j
    <2> SUFFICES ASSUME NEW j \in same PROVE i <= j
        OBVIOUS
    <2>1. j \in 1 .. Len(m.consts) /\ SameFloat(m.consts[j], t, bits, n)
        BY <1>5
    <2>2. j \notin 1 .. i - 1
        BY <1>1, <2>1
    <2> QED
        BY <1>5, <2>1, <2>2
<1>8. same # {} /\ First(same) = i
    BY <1>6, <1>7, FirstIs
<1>9. dxil_module_get_float_const(m, bits, n) = Answer(m, Const(First(same)))
    BY <1>3, <1>4, <1>8 DEF dxil_module_get_float_const
<1> QED
    BY <1>1, <1>8, <1>9

(* A NaN is made again.                                                    *)
LEMMA GetNaNAgain ==
    ASSUME NEW m, IsSound(m), NEW bits, NEW n, NEW v,
           IsNaN(bits, n), HasFloat(m, bits, n, v)
    PROVE  dxil_module_get_float_const(m, bits, n)
              = create_const(m, m.consts[v[2]])
<1> DEFINE c(t) == [type |-> t, kind |-> "float", value |-> n]
<1>1. PICK t \in Ids(m) : HasType(m, FloatType(bits), t) /\ HasConst(m, c(t), v)
    BY DEF HasFloat, HasNaN
<1>2. FloatType(bits).kind # "function"
    BY DEF FloatType
<1>3. get_type(m, FloatType(bits)) = Answer(m, t)
    BY <1>1, <1>2, GetTypeKnown
<1>4. Answer(m, t).md = m /\ Answer(m, t).is = t
    BY DEF Answer
<1>5. {j \in DOMAIN m.consts : SameFloat(m.consts[j], t, bits, n)} = {}
    BY DEF SameFloat, FloatsEqual
<1>6. dxil_module_get_float_const(m, bits, n) = create_const(m, c(t))
    BY <1>3, <1>4, <1>5 DEF dxil_module_get_float_const
<1>7. m.consts[v[2]] = c(t)
    BY <1>1 DEF HasConst, Const
<1> QED
    BY <1>6, <1>7

LEMMA GetUndef ==
    ASSUME NEW m, IsSound(m), NEW t \in Ids(m), NEW r, r = dxil_module_get_undef(m, t)
    PROVE  Gains(m, r)
<1> DEFINE c == [type |-> t, kind |-> "undef", value |-> 0]
<1>1. c.type = t /\ c.kind = "undef"
    OBVIOUS
<1>2. r = get_const(m, c)
    BY DEF dxil_module_get_undef
<1> HIDE DEF c
<1>3. IsTyped(m, c, Len(m.consts))
    BY <1>1 DEF IsTyped
<1> QED
    BY <1>2, <1>3, GetConst

(* Numbers and undefined values in a row                                   *)
LEMMA NumeralRules == Numerals!Rules(0)
<1>1. \A m1, m2, e, a : IsSound(m1) /\ IsSound(m2) /\ Grows(m1, m2)
                        /\ IsInt(0, m1, e, a) => IsInt(0, m2, e, a)
    BY SoundHasLists, IntStays DEF IsInt
<1>2. \A m, e : IsSound(m) =>
                   /\ IsSound(CallInt(0, m, e).md)
                   /\ Grows(m, CallInt(0, m, e).md)
                   /\ IsInt(0, CallInt(0, m, e).md, e, CallInt(0, m, e).is)
    BY GetInt DEF CallInt, IsInt, Gains
<1>3. \A m1, m2, e : MayInt(0, m1, e) => MayInt(0, m2, e)
    BY DEF MayInt
<1> QED
    BY <1>1, <1>2, <1>3, GrowsReflexive, GrowsTransitive DEF Numerals!Rules

LEMMA EachInt ==
    ASSUME NEW m, NEW seq
    PROVE  Each(IntConst, m, seq) = Numerals!Chain(0, m, seq)
BY DEF Each, Numerals!Chain, CallInt, IntConst, Answer

LEMMA UndefRules == Undefs!Rules(0)
<1>1. \A m1, m2, e : IsSound(m1) /\ IsSound(m2) /\ Grows(m1, m2)
                     /\ MayUndef(0, m1, e) => MayUndef(0, m2, e)
    BY SoundHasLists, IdsStay DEF MayUndef
<1>2. \A m, e : IsSound(m) /\ MayUndef(0, m, e) =>
                   /\ IsSound(CallUndef(0, m, e).md)
                   /\ Grows(m, CallUndef(0, m, e).md)
    BY GetUndef DEF CallUndef, MayUndef, Gains
<1>3. \A m, e, a : IsUndef(0, m, e, a)
    BY DEF IsUndef
<1> QED
    BY <1>1, <1>2, <1>3, GrowsReflexive, GrowsTransitive DEF Undefs!Rules

LEMMA EachUndef ==
    ASSUME NEW m, NEW seq
    PROVE  Each(dxil_module_get_undef, m, seq) = Undefs!Chain(0, m, seq)
BY DEF Each, Undefs!Chain, CallUndef, Answer

(* The numbers of a list, as members of an aggregate                       *)
LEMMA GetInts ==
    ASSUME NEW m, IsSound(m), NEW seq, Len(seq) \in Nat,
           NEW r, r = Each(IntConst, m, seq)
    PROVE  /\ Gains(m, r)
           /\ Len(r.is) = Len(seq)
           /\ r.is \in Seq({Const(j) : j \in 1 .. Len(r.md.consts)})
           /\ \A k \in 1 .. Len(seq) : HasInt(r.md, seq[k][1], seq[k][2], r.is[k])
<1>1. \A k \in 1 .. Len(seq) : MayInt(0, m, seq[k])
    BY DEF MayInt
<1>2. /\ IsSound(r.md) /\ Grows(m, r.md)
      /\ Numerals!IsList(r.is) /\ Len(r.is) = Len(seq)
      /\ \A k \in 1 .. Len(seq) : IsInt(0, r.md, seq[k], r.is[k])
    BY <1>1, EachInt, NumeralRules, Numerals!ChainHolds
<1>3. \A k \in 1 .. Len(seq) : HasInt(r.md, seq[k][1], seq[k][2], r.is[k])
    BY <1>2 DEF IsInt
<1>4. PICK S : r.is \in Seq(S)
    BY <1>2 DEF Numerals!IsList
<1> DEFINE U == {Const(j) : j \in 1 .. Len(r.md.consts)}
<1>5. \A k \in 1 .. Len(seq) : r.is[k] \in U
    BY <1>3 DEF HasInt, HasConst
<1> HIDE DEF U
<1>6. r.is \in Seq(U)
    BY <1>2, <1>4, <1>5
<1> QED
    BY <1>2, <1>3, <1>6 DEF Gains, U

LEMMA NumbersOf ==
    \A b : Len(Numbers(b)) = 4
BY DEF Numbers

LEMMA IsAggregate ==
    ASSUME NEW m, NEW t \in Ids(m), m.types[t + 1].kind \in {"struct", "array"},
           NEW n, NEW values \in Seq({Const(j) : j \in 1 .. n})
    PROVE  IsTyped(m, [type |-> t, kind |-> "aggregate", value |-> values], n)
<1> DEFINE c == [type |-> t, kind |-> "aggregate", value |-> values]
<1>1. c.type = t /\ c.kind = "aggregate" /\ c.value = values
    OBVIOUS
<1> HIDE DEF c
<1>2. IsTyped(m, c, n)
    BY <1>1 DEF IsTyped
<1> QED
    BY <1>2 DEF c

LEMMA StructId ==
    ASSUME NEW m, HasLists(m), NEW s, NEW id, HasStruct(m, s, id)
    PROVE  id \in Ids(m) /\ m.types[id + 1].kind = "struct"
<1>1. PICK i \in 1 .. Len(m.types) : id = i - 1 /\ m.types[i].kind = "struct"
    BY DEF HasStruct
<1>2. Len(m.types) \in Nat
    BY LengthsOf
<1>3. id \in Ids(m) /\ id + 1 = i
    BY <1>1, <1>2 DEF Ids
<1> QED
    BY <1>1, <1>3

LEMMA GetBinding ==
    ASSUME NEW m, IsSound(m), NEW b, NEW r, r = dxil_module_get_res_bind_const(m, b)
    PROVE  Gains(m, r) /\ HasBinding(r.md, b, r.is)
<1> DEFINE s == StructOf("#", Void)
           t == GetStruct(m, s)
           e == Each(IntConst, t.md, Numbers(b))
           c == [type |-> t.is, kind |-> "aggregate", value |-> e.is]
           q == get_const(e.md, c)
<1>1. r = q
    BY DEF dxil_module_get_res_bind_const, get_aggregate_const
<1>2. IsStruct(s)
    BY StructsOfLetters DEF Structs, Scalars
<1> HIDE DEF s
<1>3. Gains(m, t) /\ HasStruct(t.md, s, t.is)
    BY <1>2, GetStructs
<1> HIDE DEF t
<1>4. /\ Gains(t.md, e) /\ Len(e.is) = 4
      /\ e.is \in Seq({Const(j) : j \in 1 .. Len(e.md.consts)})
      /\ \A k \in 1 .. 4 : HasInt(e.md, Numbers(b)[k][1], Numbers(b)[k][2], e.is[k])
    <2>1. IsSound(t.md) /\ Len(Numbers(b)) = 4 /\ Len(Numbers(b)) \in Nat
        BY <1>3, NumbersOf DEF Gains
    <2> QED
        BY <2>1, GetInts
<1> HIDE DEF e
<1>5. HasLists(t.md) /\ HasLists(e.md)
    BY <1>3, <1>4, SoundHasLists DEF Gains
<1>6. HasStruct(e.md, s, t.is)
    BY <1>3, <1>4, <1>5, StructStays DEF Gains
<1>7. IsTyped(e.md, c, Len(e.md.consts))
    BY <1>4, <1>5, <1>6, StructId, IsAggregate
<1>8. c.type = t.is /\ c.kind = "aggregate" /\ c.value = e.is
    OBVIOUS
<1>9. c = [type |-> c.type, kind |-> "aggregate", value |-> c.value]
    OBVIOUS
<1> HIDE DEF c
<1>10. Gains(e.md, q) /\ HasConst(q.md, c, q.is)
    BY <1>4, <1>7, GetConst DEF Gains
<1> HIDE DEF q
<1>11. HasLists(q.md) /\ Grows(e.md, q.md)
    BY <1>10, SoundHasLists DEF Gains
<1>12. HasStruct(q.md, s, t.is)
    BY <1>5, <1>6, <1>11, StructStays
<1>13. ASSUME NEW k \in 1 .. 4
       PROVE  HasInt(q.md, Numbers(b)[k][1], Numbers(b)[k][2], e.is[k])
    <2>1. HasInt(e.md, Numbers(b)[k][1], Numbers(b)[k][2], e.is[k])
        BY <1>4
    <2> QED
        BY <1>5, <1>11, <2>1, IntStays
<1>14. PICK i \in 1 .. Len(q.md.consts) : q.is = Const(i) /\ q.md.consts[i] = c
    BY <1>10 DEF HasConst
<1>15. HasBinding(q.md, b, q.is)
    BY <1>4, <1>8, <1>9, <1>12, <1>13, <1>14 DEF HasBinding, s
<1>16. Gains(m, e)
    BY <1>3, <1>4, GainsTwice
<1>17. Gains(m, q)
    BY <1>10, <1>16, GainsTwice
<1> QED
    BY <1>1, <1>15, <1>17

LEMMA GetBindingKnown ==
    ASSUME NEW m, IsSound(m), NEW b, NEW v, HasBinding(m, b, v)
    PROVE  dxil_module_get_res_bind_const(m, b) = Answer(m, v)
<1> DEFINE s == StructOf("#", Void)
<1>1. PICK i \in 1 .. Len(m.consts) :
          /\ v = Const(i)
          /\ m.consts[i].kind = "aggregate"
          /\ m.consts[i] = [type |-> m.consts[i].type, kind |-> "aggregate",
                            value |-> m.consts[i].value]
          /\ HasStruct(m, s, m.consts[i].type)
          /\ Len(m.consts[i].value) = 4
          /\ \A k \in 1 .. 4 : HasInt(m, Numbers(b)[k][1], Numbers(b)[k][2],
                                      m.consts[i].value[k])
    BY DEF HasBinding
<1> DEFINE t == m.consts[i].type
           a == m.consts[i].value
<1>2. IsStruct(s)
    BY StructsOfLetters DEF Structs, Scalars
<1>3. GetStruct(m, s) = Answer(m, t)
    BY <1>1, <1>2, GetStructsKnown
<1>4. PICK n : a \in Seq({Const(j) : j \in 1 .. n})
    BY <1>1 DEF IsSound, ConstsAreSound, IsTyped
<1>5. Each(IntConst, m, Numbers(b)) = Answer(m, a)
    <2>1. \A k \in 1 .. 4 : CallInt(0, m, Numbers(b)[k]) = [md |-> m, is |-> a[k]]
        BY <1>1, GetIntKnown DEF CallInt, Answer
    <2> DEFINE S == {Const(j) : j \in 1 .. n}
    <2>2. a \in Seq(S) /\ Len(a) = 4
        BY <1>1, <1>4
    <2> HIDE DEF a, S
    <2>3. Numerals!Chain(0, m, Numbers(b)) = [md |-> m, is |-> a]
        BY <2>1, <2>2, NumbersOf, Numerals!ChainStays
    <2> QED
        BY <2>3, EachInt DEF Answer
<1>6. get_aggregate_const(m, t, a) = Answer(m, v)
    <2>1. HasConst(m, [type |-> t, kind |-> "aggregate", value |-> a], v)
        BY <1>1 DEF HasConst
    <2> QED
        BY <2>1, GetConstKnown DEF get_aggregate_const
<1>7. \A x : Answer(m, x).md = m /\ Answer(m, x).is = x
    BY DEF Answer
<1> QED
    BY <1>3, <1>5, <1>6, <1>7 DEF dxil_module_get_res_bind_const
-----------------------------------------------------------------------------
(* Functions and their attributes.                                         *)
LEMMA GetAttrs ==
    ASSUME NEW m, IsSound(m), NEW set, NEW r, r = AttrSet(m, set)
    PROVE  /\ Gains(m, r)
           /\ r.is \in 1 .. Len(r.md.attrs) /\ r.md.attrs[r.is] = set
           /\ r.md.functions = m.functions
<1>1. IsList(m.attrs)
    BY SoundHasLists DEF HasLists
<1>2. CASE Places(m.attrs, set) # {}
    <2>1. r.md = m /\ r.is = First(Places(m.attrs, set))
        BY <1>2 DEF AttrSet, Answer
    <2> QED
        BY <1>1, <1>2, <2>1, FirstPlace, GrowsReflexive DEF Gains
<1>3. CASE Places(m.attrs, set) = {}
    <2>1. \A i \in 1 .. Len(m.attrs) : m.attrs[i] # set
        BY <1>1, <1>3, FirstPlace
    <2>2. /\ r.md = [m EXCEPT !.attrs = Append(@, set)]
          /\ r.is = Len(m.attrs) + 1
        BY <1>3 DEF AttrSet, Answer
    <2>3. /\ IsSound(r.md) /\ Grows(m, r.md)
          /\ Len(m.attrs) \in Nat /\ Len(r.md.attrs) = Len(m.attrs) + 1
          /\ r.md.attrs[Len(m.attrs) + 1] = set
        BY <2>1, <2>2, GrowAttrs
    <2>4. r.md.functions = m.functions
        BY <2>2 DEF IsSound, ModuleFields
    <2> QED
        BY <2>2, <2>3, <2>4 DEF Gains
<1> QED
    BY <1>2, <1>3

LEMMA GetFunctionType ==
    ASSUME NEW m, IsSound(m), NEW ret \in Ids(m), NEW args \in Seq(Ids(m)),
           NEW r, r = dxil_module_add_function_type(m, ret, args)
    PROVE  /\ Gains(m, r)
           /\ HasType(r.md, [kind |-> "function", ret |-> ret, args |-> args], r.is)
           /\ IsFunctionType(r.md, r.is)
           /\ r.md.functions = m.functions
<1> DEFINE t == [kind |-> "function", ret |-> ret, args |-> args]
<1>1. t.kind = "function" /\ t.ret = ret /\ t.args = args
    OBVIOUS
<1>2. r.md = [m EXCEPT !.types = Append(@, t)] /\ r.is = Len(m.types)
    BY DEF dxil_module_add_function_type, create_type, Answer
<1> HIDE DEF t
<1>3. RefersTo(t, Len(m.types))
    BY <1>1 DEF RefersTo, Ids
<1>4. IsSound(r.md) /\ Grows(m, r.md) /\ HasType(r.md, t, r.is)
    BY <1>1, <1>2, <1>3, GrowTypes
<1>5. r.md.functions = m.functions
    BY <1>2 DEF IsSound, ModuleFields
<1> QED
    BY <1>1, <1>4, <1>5 DEF Gains, t, IsFunctionType, HasType

LEMMA StructLeaves ==
    ASSUME NEW m, IsSound(m), NEW s, IsStruct(s)
    PROVE  GetStruct(m, s).md.functions = m.functions
<1> DEFINE e == Each(get_type, m, s.elems)
<1>1. IsSound(e.md) /\ e.md.functions = m.functions
    BY FieldsOfStruct, GetTypes DEF Gains
<1>2. GetStruct(m, s) = dxil_module_get_struct_type(e.md, s.name, e.is)
    BY DEF GetStruct
<1> HIDE DEF e
<1> QED
    BY <1>1, <1>2, TypeLeaves DEF dxil_module_get_struct_type

LEMMA HandleLeaves ==
    ASSUME NEW m, IsSound(m)
    PROVE  dxil_module_get_handle_type(m).md.functions = m.functions
<1> DEFINE t1 == IntType(8)
           b == get_type(m, t1)
           t2 == [kind |-> "pointer", target |-> b.is]
           p == get_type(b.md, t2)
<1>1. t1.kind = "int" /\ t2.kind = "pointer" /\ t2.target = b.is
    BY DEF IntType
<1>2. dxil_module_get_handle_type(m)
        = dxil_module_get_struct_type(p.md, <<72>>, <<p.is>>)
    BY DEF dxil_module_get_handle_type, dxil_module_get_pointer_type
<1> HIDE DEF t1, t2
<1>3. Gains(m, b) /\ HasType(b.md, t1, b.is) /\ b.md.functions = m.functions
    BY <1>1, GetType, TypeLeaves DEF RefersTo
<1> HIDE DEF b
<1>4. RefersTo(t2, Len(b.md.types))
    BY <1>1, <1>3 DEF RefersTo, HasType, Ids
<1>5. IsSound(p.md) /\ p.md.functions = m.functions
    BY <1>1, <1>3, <1>4, GetType, TypeLeaves DEF Gains
<1> HIDE DEF p
<1> QED
    BY <1>2, <1>5, TypeLeaves DEF dxil_module_get_struct_type

LEMMA LetterLeaves ==
    ASSUME NEW m, IsSound(m), NEW letter, NEW ov, MayLetter(ov, m, letter)
    PROVE  get_type_from_string(m, letter, ov).md.functions = m.functions
<1>1. CASE letter = "@"
    BY <1>1, HandleLeaves DEF get_type_from_string
<1>2. CASE letter # "@" /\ letter \in Structs
    BY <1>2, StructsOfLetters, StructLeaves DEF get_type_from_string, MayLetter
<1>3. CASE letter # "@" /\ letter \notin Structs
    BY <1>3, TypeLeaves DEF get_type_from_string
<1> QED
    BY <1>1, <1>2, <1>3

LEMMA LetterRules == \A ov : Spelling!Rules(ov)
<1> SUFFICES ASSUME NEW ov PROVE Spelling!Rules(ov)
    OBVIOUS
<1>1. \A m1, m2, e : MayLetter(ov, m1, e) => MayLetter(ov, m2, e)
    BY DEF MayLetter
<1>2. \A m1, m2, e, a : IsSound(m1) /\ IsSound(m2) /\ TypesGrow(m1, m2)
                        /\ IsLetter(ov, m1, e, a) => IsLetter(ov, m2, e, a)
    BY SoundHasLists, LetterStays DEF IsLetter, TypesGrow
<1>3. \A m, e : IsSound(m) /\ MayLetter(ov, m, e) =>
                   /\ IsSound(CallLetter(ov, m, e).md)
                   /\ TypesGrow(m, CallLetter(ov, m, e).md)
                   /\ IsLetter(ov, CallLetter(ov, m, e).md, e,
                               CallLetter(ov, m, e).is)
    BY GetLetter, LetterLeaves DEF CallLetter, IsLetter, Gains, TypesGrow
<1> QED
    BY <1>1, <1>2, <1>3, TypesGrowSteps DEF Spelling!Rules

LEMMA HeadAndTail ==
    ASSUME NEW S, NEW s \in Seq(S), NEW n \in Nat, Len(s) = n + 1,
           NEW U, \A i \in 1 .. n + 1 : s[i] \in U
    PROVE  /\ Head(s) = s[1] /\ Tail(s) \in Seq(U) /\ Len(Tail(s)) = n
           /\ \A k \in 1 .. n : Tail(s)[k] = s[k + 1]
<1>1. s = [i \in 1 .. n + 1 |-> s[i]]
    OBVIOUS
<1>2. s \in Seq(U)
    BY <1>1
<1>3. s # <<>>
    OBVIOUS
<1> QED
    BY <1>2, <1>3

(* The types of a description: the first is the one of the result.         *)
LEMMA GetLetters ==
    ASSUME NEW m, IsSound(m), NEW ov, NEW ret, MayLetter(ov, m, ret),
           NEW params \in Seq(Letters),
           \A k \in 1 .. Len(params) : MayLetter(ov, m, params[k]),
           NEW r, r = Spelling!Chain(ov, m, <<ret>> \o params)
    PROVE  /\ Gains(m, r) /\ r.md.functions = m.functions
           /\ Head(r.is) \in Ids(r.md) /\ HasLetter(r.md, ret, ov, Head(r.is))
           /\ Tail(r.is) \in Seq(Ids(r.md)) /\ Len(Tail(r.is)) = Len(params)
           /\ \A k \in 1 .. Len(params) :
                 HasLetter(r.md, params[k], ov, Tail(r.is)[k])
<1> DEFINE seq == <<ret>> \o params
           n == Len(params)
<1>1. /\ n \in Nat /\ Len(seq) = n + 1 /\ seq[1] = ret
      /\ \A k \in 1 .. n : seq[k + 1] = params[k]
    <2>1. ret \in Letters
        BY DEF MayLetter
    <2> QED
        BY <2>1
<1>2. \A i \in 1 .. n + 1 : i = 1 \/ i - 1 \in 1 .. n
    BY <1>1
<1>3. \A k \in 1 .. n : MayLetter(ov, m, params[k])
    OBVIOUS
<1> HIDE DEF seq, n
<1>4. \A i \in 1 .. n + 1 : MayLetter(ov, m, seq[i])
    <2> SUFFICES ASSUME NEW i \in 1 .. n + 1, i # 1
                 PROVE  MayLetter(ov, m, seq[i])
        BY <1>1
    <2>1. i - 1 \in 1 .. n /\ i - 1 + 1 = i
        BY <1>1, <1>2
    <2> QED
        BY <1>1, <1>3, <2>1
<1>5. /\ IsSound(r.md) /\ TypesGrow(m, r.md)
      /\ Spelling!IsList(r.is) /\ Len(r.is) = n + 1
      /\ \A i \in 1 .. n + 1 : IsLetter(ov, r.md, seq[i], r.is[i])
    <2>1. r = Spelling!Chain(ov, m, seq) /\ Len(seq) \in Nat
        BY <1>1 DEF seq
    <2> QED
        <3>1. Spelling!Rules(ov)
            BY LetterRules
        <3>2. \A i \in 1 .. Len(seq) : MayLetter(ov, m, seq[i])
            BY <1>1, <1>4
        <3> QED
            <4>1. /\ IsSound(r.md) /\ TypesGrow(m, r.md)
                  /\ Spelling!IsList(r.is) /\ Len(r.is) = Len(seq)
                BY <2>1, <3>1, <3>2, Spelling!ChainHolds
            <4>2. \A i \in 1 .. Len(seq) : IsLetter(ov, r.md, seq[i], r.is[i])
                BY <2>1, <3>1, <3>2, Spelling!ChainHolds
            <4> QED
                BY <1>1, <4>1, <4>2
<1>6. PICK S : r.is \in Seq(S)
    BY <1>5 DEF Spelling!IsList
<1>7. HasLists(r.md)
    BY <1>5, SoundHasLists
<1>8. \A i \in 1 .. n + 1 : /\ HasLetter(r.md, seq[i], ov, r.is[i])
                           /\ r.is[i] \in Ids(r.md)
    BY <1>5, <1>7, LetterId DEF IsLetter
<1>9. Len(r.is) = n + 1
    BY <1>5
<1>10. /\ Head(r.is) = r.is[1] /\ Tail(r.is) \in Seq(Ids(r.md))
       /\ Len(Tail(r.is)) = n /\ \A k \in 1 .. n : Tail(r.is)[k] = r.is[k + 1]
    BY <1>1, <1>6, <1>8, <1>9, HeadAndTail
<1>11. 1 \in 1 .. n + 1 /\ \A k \in 1 .. n : k + 1 \in 1 .. n + 1
    BY <1>1
<1>12. Head(r.is) \in Ids(r.md) /\ HasLetter(r.md, ret, ov, Head(r.is))
    BY <1>1, <1>8, <1>10, <1>11
<1>13. \A k \in 1 .. n : HasLetter(r.md, params[k], ov, Tail(r.is)[k])
    BY <1>1, <1>8, <1>10, <1>11
<1> QED
    BY <1>5, <1>10, <1>12, <1>13 DEF Gains, TypesGrow, n
-----------------------------------------------------------------------------
(* A predefined function in an overload that its description uses          *)
IsAskedFor(name, ov) ==
    /\ name \in DOMAIN Predefined /\ ov \in Overloads
    /\ Overloaded(name) <=> ov # Void

LEMMA LettersAskedFor ==
    ASSUME NEW name, NEW ov, IsAskedFor(name, ov)
    PROVE  /\ Predefined[name].params \in Seq(Letters)
           /\ \A m : /\ MayLetter(ov, m, Predefined[name].ret)
                     /\ \A k \in 1 .. Len(Predefined[name].params) :
                           MayLetter(ov, m, Predefined[name].params[k])
<1> DEFINE ret == Predefined[name].ret
           params == Predefined[name].params
<1>1. ret \in Letters /\ params \in Seq(Letters) /\ ov \in Scalars
    BY DescriptionsAreSpelled DEF IsAskedFor
<1>2. Overloaded(name)
         <=> {"O", "B", "R"} \intersect ({ret} \union ToSet(params)) # {}
    BY DEF Overloaded
<1> HIDE DEF ret, params
<1>3. \A k \in 1 .. Len(params) : params[k] \in Letters /\ params[k] \in ToSet(params)
    BY <1>1 DEF ToSet
<1>4. \A l : l \in {ret} \union ToSet(params) /\ l \in {"O", "B", "R"} => ov # Void
    BY <1>2 DEF IsAskedFor
<1>5. \A m : MayLetter(ov, m, ret)
    BY <1>1, <1>4 DEF MayLetter
<1>6. \A m : \A k \in 1 .. Len(params) : MayLetter(ov, m, params[k])
    BY <1>1, <1>3, <1>4 DEF MayLetter
<1> QED
    BY <1>1, <1>5, <1>6 DEF ret, params

AttrsOf(attr) == <<EnumAttr(NO_UNWIND)>>
                    \o (IF attr = NONE THEN <<>> ELSE <<EnumAttr(attr)>>)

LEMMA GetAttrSet ==
    ASSUME NEW m, IsSound(m), NEW attr, NEW r, r = get_attr_set(m, attr)
    PROVE  /\ Gains(m, r) /\ r.md.functions = m.functions
           /\ r.is \in 1 .. Len(r.md.attrs) /\ r.md.attrs[r.is] = AttrsOf(attr)
<1> DEFINE a == EnumAttr(NO_UNWIND)
           b == EnumAttr(attr)
<1>1. r = AttrSet(m, IF attr = NONE THEN <<a>> ELSE <<a, b>>)
    BY DEF get_attr_set
<1>2. AttrsOf(attr) = <<a>> \o (IF attr = NONE THEN <<>> ELSE <<b>>)
    BY DEF AttrsOf
<1> HIDE DEF a, b
<1>3. AttrsOf(attr) = IF attr = NONE THEN <<a>> ELSE <<a, b>>
    <2>1. CASE attr = NONE
        <3>1. AttrsOf(attr) = <<a>> \o <<>> /\ <<a>> \in Seq({a})
            BY <1>2, <2>1
        <3>2. <<a>> \o <<>> = <<a>>
            BY <3>1, ConcatEmptySeq
        <3> QED
            BY <2>1, <3>1, <3>2
    <2>2. CASE attr # NONE
        <3>1. AttrsOf(attr) = <<a>> \o <<b>> /\ <<a>> \in Seq({a, b})
            BY <1>2, <2>2
        <3>2. Append(<<a>>, b) = <<a>> \o <<b>>
            BY <3>1, AppendIsConcat
        <3>3. Append(<<a>>, b) = <<a, b>>
            <4> DEFINE q == Append(<<a>>, b)
                       s == <<a, b>>
            <4>1. q \in Seq({a, b}) /\ Len(q) = 2 /\ q[1] = a /\ q[2] = b
                OBVIOUS
            <4>2. s \in Seq({a, b}) /\ Len(s) = 2 /\ s[1] = a /\ s[2] = b
                OBVIOUS
            <4> HIDE DEF q, s
            <4>3. \A i \in 1 .. Len(q) : q[i] = s[i]
                BY <4>1, <4>2
            <4>4. q = s
                BY <4>1, <4>2, <4>3, SeqEqual
            <4> QED
                BY <4>4 DEF q, s
        <3> QED
            BY <2>2, <3>1, <3>2, <3>3
    <2> QED
        BY <2>1, <2>2
<1> QED
    BY <1>1, <1>3, GetAttrs

(* A declared function of the module that has its types and attributes     *)
LEMMA IsPrototypeOf ==
    ASSUME NEW m, HasLists(m), NEW f, NEW name, NEW ov, name \in DOMAIN Predefined,
           f.decl = TRUE, f.name = FullName(name, ov),
           NEW ret, NEW args,
           HasType(m, [kind |-> "function", ret |-> ret, args |-> args], f.type),
           HasLetter(m, Predefined[name].ret, ov, ret),
           Len(args) = Len(Predefined[name].params),
           \A k \in 1 .. Len(Predefined[name].params) :
              HasLetter(m, Predefined[name].params[k], ov, args[k]),
           f.attr_set \in 1 .. Len(m.attrs),
           m.attrs[f.attr_set] = AttrsOf(Predefined[name].attr)
    PROVE  IsPrototype(m, f, name, ov)
<1> DEFINE t == [kind |-> "function", ret |-> ret, args |-> args]
<1>1. /\ t.kind = "function" /\ t.ret = ret /\ t.args = args
      /\ t = [kind |-> "function", ret |-> t.ret, args |-> t.args]
    OBVIOUS
<1>2. m.types[f.type + 1] = t
    BY DEF HasType
<1> HIDE DEF t
<1> QED
    BY <1>1, <1>2 DEF IsPrototype, AttrsOf

LEMMA AllocFunction ==
    ASSUME NEW m, IsSound(m), NEW name, NEW ov, IsAskedFor(name, ov),
           \A f \in m.functions : ~ (f.name = name /\ f.overload = ov),
           NEW r, r = dxil_alloc_func(m, name, ov, Predefined[name].ret,
                                      Predefined[name].params,
                                      Predefined[name].attr)
    PROVE  Gains(m, r) /\ HasFunction(r.md, name, ov, r.is)
<1> DEFINE p == Predefined[name]
           e == Spelling!Chain(ov, m, <<p.ret>> \o p.params)
           ret == Head(e.is)
           args == Tail(e.is)
           t == dxil_module_add_function_type(e.md, ret, args)
           a == get_attr_set(t.md, p.attr)
           g == [name |-> FullName(name, ov), type |-> t.is, decl |-> TRUE,
                 attr_set |-> a.is]
           h == [a.md EXCEPT !.funcs = Append(@, g)]
           n == Len(a.md.funcs) + 1
           v == <<"func", n>>
           q == [h EXCEPT !.functions =
                   @ \union {[name |-> name, overload |-> ov, func |-> v]}]
<1>1. r.md = q /\ r.is = v
    BY DEF dxil_alloc_func, Each, Spelling!Chain, CallLetter, Answer, add_function
<1>2. name \in DOMAIN Predefined
    BY DEF IsAskedFor
<1>3. /\ p.params \in Seq(Letters) /\ MayLetter(ov, m, p.ret)
      /\ \A k \in 1 .. Len(p.params) : MayLetter(ov, m, p.params[k])
    BY LettersAskedFor
<1> HIDE DEF p
<1>4. /\ Gains(m, e) /\ e.md.functions = m.functions
      /\ ret \in Ids(e.md) /\ HasLetter(e.md, p.ret, ov, ret)
      /\ args \in Seq(Ids(e.md)) /\ Len(args) = Len(p.params)
      /\ \A k \in 1 .. Len(p.params) : HasLetter(e.md, p.params[k], ov, args[k])
    BY <1>3, GetLetters
<1> HIDE DEF e, ret, args
<1>5. /\ Gains(e.md, t) /\ t.md.functions = e.md.functions
      /\ HasType(t.md, [kind |-> "function", ret |-> ret, args |-> args], t.is)
    BY <1>4, GetFunctionType DEF Gains
<1> HIDE DEF t
<1>6. /\ Gains(t.md, a) /\ a.md.functions = t.md.functions
      /\ a.is \in 1 .. Len(a.md.attrs) /\ a.md.attrs[a.is] = AttrsOf(p.attr)
    BY <1>5, GetAttrSet DEF Gains
<1> HIDE DEF a
<1>7. /\ g.name = FullName(name, ov) /\ g.type = t.is
      /\ g.decl = TRUE /\ g.attr_set = a.is
    OBVIOUS
<1> HIDE DEF g
<1>8. HasLists(e.md) /\ HasLists(t.md) /\ HasLists(a.md)
    BY <1>4, <1>5, <1>6, SoundHasLists DEF Gains
<1>9. /\ IsSound(a.md) /\ Grows(m, a.md) /\ Grows(e.md, a.md) /\ Grows(t.md, a.md)
    BY <1>4, <1>5, <1>6, GrowsTransitive DEF Gains
<1>10. HasType(a.md, [kind |-> "function", ret |-> ret, args |-> args], t.is)
    BY <1>5, <1>8, <1>9, TypeStays
<1>11. IsFunctionType(a.md, g.type)
    <2>1. [kind |-> "function", ret |-> ret, args |-> args].kind = "function"
        OBVIOUS
    <2> QED
        BY <1>7, <1>10, <2>1 DEF IsFunctionType, HasType
<1>12. /\ HasLetter(a.md, p.ret, ov, ret)
       /\ \A k \in 1 .. Len(p.params) : HasLetter(a.md, p.params[k], ov, args[k])
    BY <1>4, <1>8, <1>9, LetterStays
<1>13. IsPrototype(a.md, g, name, ov)
    BY <1>2, <1>4, <1>6, <1>7, <1>8, <1>10, <1>12, IsPrototypeOf DEF p
<1>14. g.attr_set \in (IF g.decl THEN 1 ELSE 0) .. Len(a.md.attrs)
    BY <1>6, <1>7
<1>15. /\ IsSound(h) /\ Grows(a.md, h)
       /\ Len(a.md.funcs) \in Nat /\ Len(h.funcs) = n
       /\ h.funcs[n] = g
       /\ h.functions = a.md.functions
    BY <1>9, <1>11, <1>14, GrowFuncs
<1> HIDE DEF h
<1>16. n \in 1 .. Len(h.funcs)
    BY <1>15
<1> HIDE DEF n
<1>17. IsPrototype(h, h.funcs[n], name, ov)
    <2>1. HasLists(h) /\ g.type \in Ids(a.md)
        BY <1>11, <1>15, SoundHasLists DEF IsFunctionType
    <2> QED
        BY <1>8, <1>13, <1>15, <2>1, PrototypeStays
<1>18. \A f \in h.functions : ~ (f.name = name /\ f.overload = ov)
    BY <1>4, <1>5, <1>6, <1>15
<1>19. IsSound(q) /\ Grows(h, q) /\ HasFunction(q, name, ov, v)
    BY <1>15, <1>16, <1>17, <1>18, GrowFunctions
<1> HIDE DEF q
<1>20. Grows(m, q)
    BY <1>9, <1>15, <1>19, GrowsTransitive
<1> QED
    BY <1>1, <1>19, <1>20 DEF Gains

LEMMA GetFunction ==
    ASSUME NEW m, IsSound(m), NEW name, NEW ov, IsAskedFor(name, ov),
           NEW r, r = dxil_get_function(m, name, ov)
    PROVE  Gains(m, r) /\ HasFunction(r.md, name, ov, r.is)
<1> DEFINE known == {f \in m.functions : f.name = name /\ f.overload = ov}
<1>1. CASE known # {}
    <2> DEFINE f == CHOOSE f \in known : TRUE
    <2>1. f \in m.functions /\ f.name = name /\ f.overload = ov
        BY <1>1
    <2>2. r = Answer(m, f.func)
        BY <1>1 DEF dxil_get_function
    <2>3. r.md = m /\ r.is = f.func
        BY <2>2 DEF Answer
    <2> HIDE DEF f
    <2>4. PICK i \in 1 .. Len(m.funcs) :
              f = [name |-> f.name, overload |-> f.overload, func |-> <<"func", i>>]
        BY <2>1 DEF IsSound, PrototypesAreSound
    <2>5. f = [name |-> name, overload |-> ov, func |-> f.func]
        <3>1. f.func = <<"func", i>>
            BY <2>4
        <3> QED
            BY <2>1, <2>4, <3>1
    <2> QED
        BY <2>1, <2>3, <2>5, GrowsReflexive DEF Gains, HasFunction
<1>2. CASE known = {}
    <2>1. r = dxil_alloc_func(m, name, ov, Predefined[name].ret,
                              Predefined[name].params, Predefined[name].attr)
        BY <1>2 DEF dxil_get_function
    <2>2. \A f \in m.functions : ~ (f.name = name /\ f.overload = ov)
        BY <1>2
    <2> QED
        BY <2>1, <2>2, AllocFunction
<1> QED
    BY <1>1, <1>2

LEMMA GetFunctionKnown ==
    ASSUME NEW m, IsSound(m), NEW name, NEW ov, NEW v, HasFunction(m, name, ov, v)
    PROVE  dxil_get_function(m, name, ov) = Answer(m, v)
<1> DEFINE e == [name |-> name, overload |-> ov, func |-> v]
           known == {f \in m.functions : f.name = name /\ f.overload = ov}
<1>1. e.name = name /\ e.overload = ov /\ e.func = v
    OBVIOUS
<1>2. e \in m.functions
    BY DEF HasFunction
<1> HIDE DEF e
<1>3. known = {e}
    BY <1>1, <1>2 DEF IsSound, PrototypesAreSound
<1>4. dxil_get_function(m, name, ov) = Answer(m, (CHOOSE f \in known : TRUE).func)
    BY <1>3 DEF dxil_get_function
<1>5. (CHOOSE f \in known : TRUE) = e
    BY <1>3
<1> QED
    BY <1>1, <1>4, <1>5
-----------------------------------------------------------------------------
(* The entry point, the calls and the return of its body, and a global     *)
LEMMA AddFunctionDef ==
    ASSUME NEW m, IsSound(m), NEW name, NEW keys,
           NEW r, r = dxil_add_function_def(m, name, keys)
    PROVE  /\ Gains(m, r)
           /\ \E i \in 1 .. Len(r.md.funcs) : ~ r.md.funcs[i].decl
<1> DEFINE v == get_type(m, Void)
           t == dxil_module_add_function_type(v.md, v.is, <<>>)
           a == dxil_get_string_attr_set(t.md, keys)
           g == [name |-> name, type |-> t.is, decl |-> FALSE, attr_set |-> a.is]
           h == [a.md EXCEPT !.funcs = Append(@, g)]
           n == Len(a.md.funcs) + 1
<1>1. \E d : r.md = [h EXCEPT !.defs = Append(@, d)]
    BY DEF dxil_add_function_def, add_function, Answer
<1>2. Gains(m, v) /\ v.is \in Ids(v.md)
    <2>1. Void.kind # "function" /\ RefersTo(Void, Len(m.types))
        BY DEF Void, RefersTo
    <2> QED
        BY <2>1, GetType DEF HasType
<1> HIDE DEF v
<1>3. Gains(v.md, t) /\ IsFunctionType(t.md, t.is)
    <2>1. <<>> \in Seq(Ids(v.md)) /\ IsSound(v.md)
        BY <1>2 DEF Gains
    <2> QED
        BY <1>2, <2>1, GetFunctionType
<1> HIDE DEF t
<1>4. Len(t.md.attrs) \in Nat
    BY <1>3, SoundHasLists, LengthsOf DEF Gains
<1>5. Gains(t.md, a) /\ a.is \in 0 .. Len(a.md.attrs)
    <2>1. CASE keys = <<>>
        <3>1. a.md = t.md /\ a.is = 0
            BY <2>1 DEF dxil_get_string_attr_set, Answer
        <3> QED
            BY <1>3, <1>4, <3>1, GrowsReflexive DEF Gains
    <2>2. CASE keys # <<>>
        <3>1. \E set : a = AttrSet(t.md, set)
            BY <2>2 DEF dxil_get_string_attr_set
        <3>2. Gains(t.md, a) /\ a.is \in 1 .. Len(a.md.attrs)
            BY <1>3, <3>1, GetAttrs DEF Gains
        <3> QED
            BY <3>2
    <2> QED
        BY <2>1, <2>2
<1> HIDE DEF a
<1>6. g.type = t.is /\ g.decl = FALSE /\ g.attr_set = a.is
    OBVIOUS
<1> HIDE DEF g
<1>7. IsFunctionType(a.md, g.type)
    <2>1. HasLists(t.md) /\ HasLists(a.md)
        BY <1>3, <1>5, SoundHasLists DEF Gains
    <2> QED
        BY <1>3, <1>5, <1>6, <2>1, IdsStay DEF IsFunctionType, Gains
<1>8. g.attr_set \in (IF g.decl THEN 1 ELSE 0) .. Len(a.md.attrs)
    BY <1>5, <1>6
<1>9. /\ IsSound(h) /\ Grows(a.md, h)
      /\ Len(a.md.funcs) \in Nat /\ Len(h.funcs) = n
      /\ h.funcs[n] = g
    BY <1>5, <1>7, <1>8, GrowFuncs DEF Gains
<1> HIDE DEF h
<1>10. n \in 1 .. Len(h.funcs)
    BY <1>9
<1> HIDE DEF n
<1>11. /\ IsSound(r.md) /\ Grows(h, r.md) /\ r.md.funcs = h.funcs
    <2>1. DOMAIN h = ModuleFields
        BY <1>9 DEF IsSound
    <2>2. /\ DOMAIN r.md = DOMAIN h /\ r.md.types = h.types
          /\ r.md.consts = h.consts /\ r.md.funcs = h.funcs
          /\ r.md.attrs = h.attrs /\ r.md.mdnodes = h.mdnodes
          /\ r.md.functions = h.functions
        BY <1>1, <2>1 DEF ModuleFields
    <2> QED
        BY <1>9, <2>2, SoundElsewhere
<1>12. Grows(m, r.md)
    BY <1>2, <1>3, <1>5, <1>9, <1>11, GrowsTransitive DEF Gains
<1>13. n \in 1 .. Len(r.md.funcs) /\ ~ r.md.funcs[n].decl
    BY <1>6, <1>9, <1>10, <1>11
<1> QED
    BY <1>11, <1>12, <1>13 DEF Gains

LEMMA CreateInstr ==
    ASSUME NEW m, IsSound(m), NEW in, NEW r, r = create_instr(m, in)
    PROVE  Gains(m, r)
<1>1. \E d : r.md = [m EXCEPT !.defs = d]
    BY DEF create_instr, Answer
<1>2. DOMAIN m = ModuleFields
    BY DEF IsSound
<1>3. /\ DOMAIN r.md = DOMAIN m /\ r.md.types = m.types
      /\ r.md.consts = m.consts /\ r.md.funcs = m.funcs
      /\ r.md.attrs = m.attrs /\ r.md.mdnodes = m.mdnodes
      /\ r.md.functions = m.functions
    BY <1>1, <1>2 DEF ModuleFields
<1> QED
    BY <1>3, SoundElsewhere DEF Gains

(* The call of a function of the module, on undefined arguments            *)
LEMMA EmitCallGains ==
    ASSUME NEW m, IsSound(m), NEW name, NEW ov, NEW f, HasFunction(m, name, ov, f),
           NEW r, r = EmitCall(m, f)
    PROVE  Gains(m, r)
<1> DEFINE t == m.funcs[f[2]].type
           ty == m.types[t + 1]
           a == Each(dxil_module_get_undef, m, ty.args)
<1>1. \E in : r = create_instr(a.md, in)
    BY DEF EmitCall
<1>2. PICK i \in 1 .. Len(m.funcs) : f = <<"func", i>>
    <2> DEFINE e == [name |-> name, overload |-> ov, func |-> f]
    <2>1. e \in m.functions
        BY DEF HasFunction
    <2>2. PICK i \in 1 .. Len(m.funcs) :
              e = [name |-> e.name, overload |-> e.overload, func |-> <<"func", i>>]
        BY <2>1 DEF IsSound, PrototypesAreSound
    <2>3. e.func = <<"func", i>> /\ e.func = f
        BY <2>2
    <2> QED
        BY <2>3
<1>3. t \in Ids(m) /\ ty.kind = "function"
    <2>1. f[2] \in 1 .. Len(m.funcs)
        BY <1>2
    <2> QED
        BY <2>1 DEF IsSound, FuncsAreSound, IsFunctionType
<1>4. Len(m.types) \in Nat
    BY SoundHasLists, LengthsOf
<1> HIDE DEF t, ty
<1>5. ty.args \in Seq(Ids(m))
    <2>1. t \in Int /\ t + 1 \in 1 .. Len(m.types) /\ t + 1 - 1 = t
        BY <1>3, <1>4 DEF Ids
    <2>2. \A x \in 0 .. t - 1 : x \in Ids(m)
        BY <1>3, <1>4, <2>1 DEF Ids
    <2>3. RefersTo(ty, t)
        <3> DEFINE j == t + 1
        <3>1. j \in 1 .. Len(m.types) /\ ty = m.types[j] /\ j - 1 = t
            BY <2>1 DEF ty
        <3> HIDE DEF j
        <3>2. RefersTo(m.types[j], j - 1)
            BY <3>1 DEF IsSound, TypesAreSound
        <3> QED
            BY <3>1, <3>2
    <2>4. ty.args \in Seq(0 .. t - 1)
        BY <1>3, <2>3 DEF RefersTo
    <2>5. 0 .. t - 1 \subseteq Ids(m)
        BY <2>2
    <2> QED
        BY <2>4, <2>5, SeqMonotonic, Zenon
<1>6. /\ Len(ty.args) \in Nat
      /\ \A k \in 1 .. Len(ty.args) : MayUndef(0, m, ty.args[k])
    BY <1>5 DEF MayUndef
<1>7. IsSound(a.md) /\ Grows(m, a.md)
    <2>1. a = Undefs!Chain(0, m, ty.args)
        BY EachUndef
    <2> QED
        BY <1>6, <2>1, UndefRules, Undefs!ChainHolds
<1> HIDE DEF a
<1>8. Gains(a.md, r)
    BY <1>1, <1>7, CreateInstr
<1> QED
    BY <1>7, <1>8, GainsTwice DEF Gains

LEMMA EmitRet ==
    ASSUME NEW m, IsSound(m), NEW r, r = dxil_emit_ret_void(m)
    PROVE  Gains(m, r)
<1> DEFINE v == get_type(m, Void)
<1>1. \E in, d : r.md = [create_instr(v.md, in).md EXCEPT !.defs = d]
    BY DEF dxil_emit_ret_void, Answer
<1>2. Gains(m, v)
    <2>1. Void.kind # "function" /\ RefersTo(Void, Len(m.types))
        BY DEF Void, RefersTo
    <2> QED
        BY <2>1, GetType
<1> HIDE DEF v
<1>3. PICK in, d : r.md = [create_instr(v.md, in).md EXCEPT !.defs = d]
    BY <1>1
<1> DEFINE q == create_instr(v.md, in)
<1>4. Gains(v.md, q) /\ IsSound(q.md)
    BY <1>2, CreateInstr DEF Gains
<1> HIDE DEF q
<1>5. DOMAIN q.md = ModuleFields
    BY <1>4 DEF IsSound
<1>6. /\ DOMAIN r.md = DOMAIN q.md /\ r.md.types = q.md.types
      /\ r.md.consts = q.md.consts /\ r.md.funcs = q.md.funcs
      /\ r.md.attrs = q.md.attrs /\ r.md.mdnodes = q.md.mdnodes
      /\ r.md.functions = q.md.functions
    BY <1>3, <1>5 DEF ModuleFields, q
<1>7. IsSound(r.md) /\ Grows(q.md, r.md)
    BY <1>4, <1>6, SoundElsewhere
<1> QED
    BY <1>2, <1>4, <1>7, GrowsTransitive DEF Gains

GlobalOf(md) ==
    LET e == get_type(md, IntType(32))
        t == get_type(e.md, [kind |-> "array", num |-> 2, elem |-> e.is])
        c == Each(IntConst, t.md, <<<<32, 7>>, <<32, 0>>>>)
        a == get_aggregate_const(c.md, t.is, c.is)
    IN  dxil_add_global_ptr_var(a.md, <<103>>, t.is, 16, a.is).md

LEMMA GlobalGains ==
    ASSUME NEW m, IsSound(m)
    PROVE  IsSound(GlobalOf(m)) /\ Grows(m, GlobalOf(m))
<1> DEFINE i == IntType(32)
           e == get_type(m, i)
           y == [kind |-> "array", num |-> 2, elem |-> e.is]
           t == get_type(e.md, y)
           seq == <<<<32, 7>>, <<32, 0>>>>
           c == Each(IntConst, t.md, seq)
           k == [type |-> t.is, kind |-> "aggregate", value |-> c.is]
           a == get_const(c.md, k)
           z == [kind |-> "pointer", target |-> t.is]
           p == get_type(a.md, z)
           r == GlobalOf(m)
<1>1. \E g : r = [p.md EXCEPT !.gvars = g]
    BY DEF GlobalOf, dxil_add_global_ptr_var, add_gvar, get_aggregate_const,
           dxil_module_get_pointer_type, Answer
<1>2. /\ i.kind = "int" /\ y.kind = "array" /\ y.elem = e.is
      /\ z.kind = "pointer" /\ z.target = t.is /\ Len(seq) \in Nat
    BY DEF IntType
<1> HIDE DEF i, y, z, seq, r
<1>3. Gains(m, e) /\ e.is \in Ids(e.md)
    BY <1>2, ScalarOfConst
<1> HIDE DEF e
<1>4. RefersTo(y, Len(e.md.types)) /\ y.kind # "function"
    BY <1>2, <1>3 DEF RefersTo, Ids
<1>5. Gains(e.md, t) /\ HasType(t.md, y, t.is)
    BY <1>3, <1>4, GetType DEF Gains
<1> HIDE DEF t
<1>6. Gains(t.md, c) /\ c.is \in Seq({Const(j) : j \in 1 .. Len(c.md.consts)})
    BY <1>2, <1>5, GetInts DEF Gains
<1> HIDE DEF c
<1>7. HasLists(t.md) /\ HasLists(c.md)
    BY <1>5, <1>6, SoundHasLists DEF Gains
<1>8. t.is \in Ids(c.md) /\ c.md.types[t.is + 1].kind = "array"
    <2>1. HasType(c.md, y, t.is)
        BY <1>5, <1>6, <1>7, TypeStays DEF Gains
    <2> QED
        BY <1>2, <2>1 DEF HasType
<1>9. IsTyped(c.md, k, Len(c.md.consts))
    BY <1>6, <1>8, IsAggregate
<1> HIDE DEF k
<1>10. Gains(c.md, a)
    BY <1>6, <1>9, GetConst DEF Gains
<1> HIDE DEF a
<1>11. t.is \in Ids(a.md)
    BY <1>7, <1>8, <1>10, SoundHasLists, IdsStay DEF Gains
<1>12. RefersTo(z, Len(a.md.types)) /\ z.kind # "function"
    BY <1>2, <1>11 DEF RefersTo, Ids
<1>13. Gains(a.md, p)
    BY <1>10, <1>12, GetType DEF Gains
<1> HIDE DEF p
<1>14. DOMAIN p.md = ModuleFields
    BY <1>13 DEF Gains, IsSound
<1>15. /\ DOMAIN r = DOMAIN p.md /\ r.types = p.md.types
       /\ r.consts = p.md.consts /\ r.funcs = p.md.funcs
       /\ r.attrs = p.md.attrs /\ r.mdnodes = p.md.mdnodes
       /\ r.functions = p.md.functions
    BY <1>1, <1>14 DEF ModuleFields
<1>16. IsSound(r) /\ Grows(p.md, r)
    BY <1>13, <1>15, SoundElsewhere DEF Gains
<1>17. Grows(m, r)
    <2>1. Gains(m, c)
        BY <1>3, <1>5, <1>6, GainsTwice
    <2>2. Gains(m, p)
        BY <1>10, <1>13, <2>1, GainsTwice
    <2> QED
        BY <1>16, <2>2, GrowsTransitive DEF Gains
<1> QED
    BY <1>16, <1>17 DEF r
-----------------------------------------------------------------------------
(* Metadata.                                                               *)
LEMMA GetNode ==
    ASSUME NEW m, IsSound(m),
           NEW e, e.kind = "node" => e.subnodes \in Seq(0 .. Len(m.mdnodes)),
           NEW r, r = get_mdnode(m, e)
    PROVE  Gains(m, r) /\ r.is \in 0 .. Len(r.md.mdnodes)
<1>1. IsList(m.mdnodes) /\ Len(m.mdnodes) \in Nat
    BY SoundHasLists, LengthsOf DEF HasLists
<1>2. CASE Places(m.mdnodes, e) # {}
    <2>1. r.md = m /\ r.is = First(Places(m.mdnodes, e))
        BY <1>2 DEF get_mdnode, Answer
    <2>2. r.is \in 1 .. Len(m.mdnodes)
        BY <1>1, <1>2, <2>1, FirstPlace
    <2>3. r.is \in 0 .. Len(m.mdnodes)
        BY <1>1, <2>2
    <2> QED
        BY <2>1, <2>3, GrowsReflexive DEF Gains
<1>3. CASE Places(m.mdnodes, e) = {}
    <2>1. \A i \in 1 .. Len(m.mdnodes) : m.mdnodes[i] # e
        BY <1>1, <1>3, FirstPlace
    <2>2. /\ r.md = [m EXCEPT !.mdnodes = Append(@, e)]
          /\ r.is = Len(m.mdnodes) + 1
        BY <1>3 DEF get_mdnode, Answer
    <2>3. /\ IsSound(r.md) /\ Grows(m, r.md)
          /\ Len(r.md.mdnodes) = Len(m.mdnodes) + 1
        BY <2>1, <2>2, GrowNodes
    <2> QED
        BY <1>1, <2>2, <2>3 DEF Gains
<1> QED
    BY <1>2, <1>3

LEMMA GetValueNode ==
    ASSUME NEW m, IsSound(m), NEW type, NEW value,
           NEW r, r = dxil_get_metadata_value(m, type, value)
    PROVE  Gains(m, r) /\ r.is \in 0 .. Len(r.md.mdnodes)
<1> DEFINE e == [kind |-> "value", type |-> type, value |-> value]
<1>1. e.kind = "value" /\ r = get_mdnode(m, e)
    BY DEF dxil_get_metadata_value
<1> HIDE DEF e
<1> QED
    BY <1>1, GetNode

LEMMA GetItem ==
    ASSUME NEW m, IsSound(m), NEW i, MayItem(0, m, i), NEW r, r = Item(m, i)
    PROVE  Gains(m, r) /\ r.is \in 0 .. Len(r.md.mdnodes)
<1>1. CASE i[1] = "string"
    <2> DEFINE e == [kind |-> "string", text |-> i[2]]
    <2>1. e.kind = "string" /\ r = get_mdnode(m, e)
        BY <1>1 DEF Item, dxil_get_metadata_string
    <2> HIDE DEF e
    <2> QED
        BY <2>1, GetNode
<1>2. CASE i[1] = "int"
    <2> DEFINE c == get_int_const(m, 32, i[2])
               t == get_type(c.md, IntType(32))
               q == dxil_get_metadata_value(c.md, t.is, c.is)
    <2>1. r = q
        BY <1>2 DEF Item, dxil_get_metadata_int
    <2>2. Gains(m, c)
        BY GetInt
    <2> HIDE DEF c, t
    <2>3. Gains(c.md, q) /\ q.is \in 0 .. Len(q.md.mdnodes)
        BY <2>2, GetValueNode DEF Gains
    <2> QED
        BY <2>1, <2>2, <2>3, GainsTwice
<1>3. CASE i[1] = "func"
    <2> DEFINE t == [kind |-> "pointer", target |-> m.funcs[i[2]].type]
               p == get_type(m, t)
               q == dxil_get_metadata_value(p.md, p.is, i)
    <2>1. r = q
        BY <1>3 DEF Item, dxil_get_metadata_func, dxil_module_get_pointer_type
    <2>2. m.funcs[i[2]].type \in Ids(m)
        BY <1>3 DEF MayItem, IsSound, FuncsAreSound, IsFunctionType
    <2>3. t.kind = "pointer" /\ t.target = m.funcs[i[2]].type
        OBVIOUS
    <2> HIDE DEF t
    <2>4. RefersTo(t, Len(m.types)) /\ t.kind # "function"
        BY <2>2, <2>3 DEF RefersTo, Ids
    <2>5. Gains(m, p)
        BY <2>4, GetType
    <2> HIDE DEF p
    <2>6. Gains(p.md, q) /\ q.is \in 0 .. Len(q.md.mdnodes)
        BY <2>5, GetValueNode DEF Gains
    <2> QED
        BY <2>1, <2>5, <2>6, GainsTwice
<1>4. CASE i[1] = "node"
    <2>1. r.md = m /\ r.is = i[2]
        BY <1>4 DEF Item, Answer
    <2>2. i[2] \in 0 .. Len(m.mdnodes)
        BY <1>4 DEF MayItem
    <2> QED
        BY <2>1, <2>2, GrowsReflexive DEF Gains
<1> QED
    BY <1>1, <1>2, <1>3, <1>4 DEF MayItem

LEMMA ItemStays ==
    ASSUME NEW m, IsSound(m), NEW r, IsSound(r), Grows(m, r), NEW i, MayItem(0, m, i)
    PROVE  MayItem(0, r, i)
<1>1. /\ Len(m.mdnodes) \in Nat /\ Len(r.mdnodes) \in Nat
      /\ Len(m.mdnodes) <= Len(r.mdnodes)
      /\ Len(m.funcs) \in Nat /\ Len(r.funcs) \in Nat
      /\ Len(m.funcs) <= Len(r.funcs)
    BY SoundHasLists, Lengths
<1>2. /\ i[2] \in 1 .. Len(m.funcs) => i[2] \in 1 .. Len(r.funcs)
      /\ i[2] \in 0 .. Len(m.mdnodes) => i[2] \in 0 .. Len(r.mdnodes)
    BY <1>1
<1> QED
    BY <1>2 DEF MayItem

LEMMA ItemRules == Items!Rules(0)
<1>1. \A m1, m2, e : IsSound(m1) /\ IsSound(m2) /\ Grows(m1, m2)
                     /\ MayItem(0, m1, e) => MayItem(0, m2, e)
    BY ItemStays
<1>2. \A m1, m2, e, a : IsSound(m1) /\ IsSound(m2) /\ Grows(m1, m2)
                        /\ IsItem(0, m1, e, a) => IsItem(0, m2, e, a)
    <2>1. \A m1, m2 : IsSound(m1) /\ IsSound(m2) /\ Grows(m1, m2)
             => /\ Len(m1.mdnodes) \in Nat /\ Len(m2.mdnodes) \in Nat
                /\ Len(m1.mdnodes) <= Len(m2.mdnodes)
        BY SoundHasLists, Lengths
    <2> QED
        BY <2>1 DEF IsItem
<1>3. \A m, e : IsSound(m) /\ MayItem(0, m, e) =>
                   /\ IsSound(CallItem(0, m, e).md)
                   /\ Grows(m, CallItem(0, m, e).md)
                   /\ IsItem(0, CallItem(0, m, e).md, e, CallItem(0, m, e).is)
    BY GetItem DEF CallItem, IsItem, Gains
<1> QED
    BY <1>1, <1>2, <1>3, GrowsReflexive, GrowsTransitive DEF Items!Rules

LEMMA EachItem ==
    ASSUME NEW m, NEW seq
    PROVE  Each(Item, m, seq) = Items!Chain(0, m, seq)
BY DEF Each, Items!Chain, CallItem, Answer

LEMMA GetNodeOf ==
    ASSUME NEW m, IsSound(m), NEW items, Len(items) \in Nat,
           \A k \in 1 .. Len(items) : MayItem(0, m, items[k]),
           NEW r, r = NodeOf(m, items)
    PROVE  /\ Gains(m, r)
           /\ r.is \in 0 .. Len(r.md.mdnodes)
           /\ MayItem(0, r.md, <<"node", r.is>>)
<1> DEFINE e == Each(Item, m, items)
           n == [kind |-> "node", subnodes |-> e.is]
<1>1. r = get_mdnode(e.md, n)
    BY DEF NodeOf, dxil_get_metadata_node
<1>2. /\ IsSound(e.md) /\ Grows(m, e.md)
      /\ Items!IsList(e.is) /\ Len(e.is) = Len(items)
      /\ \A k \in 1 .. Len(items) : IsItem(0, e.md, items[k], e.is[k])
    <2>1. e = Items!Chain(0, m, items)
        BY EachItem
    <2> HIDE DEF e
    <2> QED
        BY <2>1, ItemRules, Items!ChainHolds
<1> HIDE DEF e
<1>3. PICK S : e.is \in Seq(S)
    BY <1>2 DEF Items!IsList
<1>4. \A k \in 1 .. Len(e.is) : e.is[k] \in 0 .. Len(e.md.mdnodes)
    BY <1>2 DEF IsItem
<1>5. e.is \in Seq(0 .. Len(e.md.mdnodes))
    <2> DEFINE U == 0 .. Len(e.md.mdnodes)
    <2>1. \A k \in 1 .. Len(e.is) : e.is[k] \in U
        BY <1>4
    <2> HIDE DEF U
    <2>2. e.is \in Seq(U)
        BY <1>3, <2>1
    <2> QED
        BY <2>2 DEF U
<1>6. n.kind = "node" /\ n.subnodes = e.is
    OBVIOUS
<1> HIDE DEF n
<1>7. Gains(e.md, r) /\ r.is \in 0 .. Len(r.md.mdnodes)
    BY <1>1, <1>2, <1>5, <1>6, GetNode
<1>8. Gains(m, r)
    BY <1>2, <1>7, GrowsTransitive DEF Gains
<1>9. MayItem(0, r.md, <<"node", r.is>>)
    BY <1>7 DEF MayItem
<1> QED
    BY <1>7, <1>8, <1>9

(* A node of items of a set that may all be made                           *)
LEMMA NextNode ==
    ASSUME NEW m, IsSound(m), NEW S, \A x \in S : MayItem(0, m, x),
           NEW items \in Seq(S), NEW r, r = NodeOf(m, items)
    PROVE  /\ IsSound(r.md) /\ Grows(m, r.md)
           /\ MayItem(0, r.md, <<"node", r.is>>)
<1>1. Len(items) \in Nat /\ \A k \in 1 .. Len(items) : MayItem(0, m, items[k])
    OBVIOUS
<1> QED
    BY <1>1, GetNodeOf DEF Gains

LEMMA PlainItems ==
    \A m, v : MayItem(0, m, <<"int", v>>) /\ MayItem(0, m, <<"string", v>>)
BY DEF MayItem

LEMMA NullItem ==
    ASSUME NEW m, IsSound(m)
    PROVE  MayItem(0, m, <<"node", 0>>)
<1>1. Len(m.mdnodes) \in Nat
    BY SoundHasLists, LengthsOf
<1> QED
    BY <1>1 DEF MayItem

LEMMA NamedNodeGains ==
    ASSUME NEW m, IsSound(m), NEW name, NEW n,
           NEW r, r = dxil_add_metadata_named_node(m, name, n)
    PROVE  IsSound(r) /\ Grows(m, r)
<1>1. \E d : r = [m EXCEPT !.named = d]
    BY DEF dxil_add_metadata_named_node
<1>2. DOMAIN m = ModuleFields
    BY DEF IsSound
<1>3. /\ DOMAIN r = DOMAIN m /\ r.types = m.types
      /\ r.consts = m.consts /\ r.funcs = m.funcs
      /\ r.attrs = m.attrs /\ r.mdnodes = m.mdnodes
      /\ r.functions = m.functions
    BY <1>1, <1>2 DEF ModuleFields
<1> QED
    BY <1>3, SoundElsewhere

LEMMA AddNamedGains ==
    ASSUME NEW m, IsSound(m), NEW node, MayNamed(0, m, node),
           NEW r, r = AddNamed(m, node)
    PROVE  Gains(m, r)
<1> DEFINE n == NodeOf(m, node.items)
<1>1. r.md = dxil_add_metadata_named_node(n.md, node.name, n.is)
    BY DEF AddNamed, Answer
<1>2. /\ Len(node.items) \in Nat
      /\ \A k \in 1 .. Len(node.items) : MayItem(0, m, node.items[k])
    BY DEF MayNamed, MayItem
<1>3. Gains(m, n)
    BY <1>2, GetNodeOf
<1> HIDE DEF n
<1>4. IsSound(r.md) /\ Grows(n.md, r.md)
    BY <1>1, <1>3, NamedNodeGains DEF Gains
<1> QED
    BY <1>3, <1>4, GrowsTransitive DEF Gains

LEMMA NamedRules == NamedNodes!Rules(0)
<1>1. \A m1, m2, e : MayNamed(0, m1, e) => MayNamed(0, m2, e)
    BY DEF MayNamed
<1>2. \A m, e : IsSound(m) /\ MayNamed(0, m, e) =>
                   /\ IsSound(CallNamed(0, m, e).md)
                   /\ Grows(m, CallNamed(0, m, e).md)
    BY AddNamedGains DEF CallNamed, Gains
<1>3. \A m, e, a : IsNamed(0, m, e, a)
    BY DEF IsNamed
<1> QED
    BY <1>1, <1>2, <1>3, GrowsReflexive, GrowsTransitive DEF NamedNodes!Rules

LEMMA EachNamed ==
    ASSUME NEW m, NEW seq
    PROVE  Each(AddNamed, m, seq) = NamedNodes!Chain(0, m, seq)
BY DEF Each, NamedNodes!Chain, CallNamed, Answer
-----------------------------------------------------------------------------
LEMMA PlainNode ==
    ASSUME NEW node, NEW S, node.items \in Seq(S),
           \A x \in S : x[1] \in {"string", "int"}
    PROVE  \A m : MayNamed(0, m, node)
BY DEF MayNamed

LEMMA Identified ==
    \A j \in 1 .. 4 : \A m : MayNamed(0, m, Identification[j])
<1> DEFINE S == {<<"string", <<77, 32>>>>, <<"string", <<99, 115>>>>}
                   \union {<<"int", k>> : k \in {0, 1, 4, 6}}
<1>1. \A x \in S : x[1] \in {"string", "int"}
    OBVIOUS
<1>2. /\ <<"string", <<77, 32>>>> \in S /\ <<"string", <<99, 115>>>> \in S
      /\ \A k \in {0, 1, 4, 6} : <<"int", k>> \in S
    OBVIOUS
<1> HIDE DEF S
<1>3. Identification[1].items = <<<<"string", <<77, 32>>>>>>
    BY DEF Identification
<1>4. Identification[2].items = <<<<"int", 1>>, <<"int", 0>>>>
    BY DEF Identification
<1>5. Identification[3].items = <<<<"int", 1>>, <<"int", 4>>>>
    BY DEF Identification
<1>6. Identification[4].items
         = <<<<"string", <<99, 115>>>>, <<"int", 6>>, <<"int", 0>>>>
    BY DEF Identification
<1>7. \A x, y, z \in S : <<x>> \in Seq(S) /\ <<x, y>> \in Seq(S) /\ <<x, y, z>> \in Seq(S)
    OBVIOUS
<1>8. \A j \in 1 .. 4 : Identification[j].items \in Seq(S)
    <2>1. \A j \in 1 .. 4 : j = 1 \/ j = 2 \/ j = 3 \/ j = 4
        OBVIOUS
    <2>2. Identification[1].items \in Seq(S) /\ Identification[2].items \in Seq(S)
        BY <1>2, <1>3, <1>4, <1>7
    <2>3. Identification[3].items \in Seq(S) /\ Identification[4].items \in Seq(S)
        BY <1>2, <1>5, <1>6, <1>7
    <2> QED
        BY <2>1, <2>2, <2>3
<1> QED
    BY <1>1, <1>8, PlainNode

LEMMA MetadataGains ==
    ASSUME NEW m, IsSound(m), NEW i \in 1 .. Len(m.funcs),
           NEW r, r = nir_emit_metadata(m, <<"func", i>>)
    PROVE  IsSound(r) /\ Grows(m, r)
<1> DEFINE f == <<"func", i>>
           named == Each(AddNamed, m, Identification)
           a == Item(named.md, f)
           b == NodeOf(a.md, <<>>)
           c == NodeOf(b.md, <<<<"int", 0>>, ItemOf(b), ItemOf(b)>>)
           d == NodeOf(c.md, <<ItemOf(c)>>)
           e == NodeOf(d.md, <<<<"int", 1>>, ItemOf(a), ItemOf(d)>>)
           g == NodeOf(e.md, <<<<"int", 1>>, <<"int", 1>>, <<"int", 1>>>>)
           h == NodeOf(g.md, <<<<"int", 4>>, ItemOf(g)>>)
           k == NodeOf(h.md, <<f, <<"string", h.md.funcs[f[2]].name>>,
                               <<"node", 0>>, <<"node", 0>>, ItemOf(h)>>)
           p == dxil_add_metadata_named_node(k.md, <<116>>, e.is)
           q == dxil_add_metadata_named_node(p, <<101>>, k.is)
<1>1. r = q
    BY DEF nir_emit_metadata, emit_entry_nodes, emit_entrypoint,
           shader_properties, emit_threads, main_type_annotation, annotate_type, node28, node29,
           add_named_nodes
<1>2. Gains(m, named)
    <2>1. \A j \in 1 .. 4 : MayNamed(0, m, Identification[j])
        BY Identified
    <2>2. Len(Identification) = 4 /\ 4 \in Nat
        BY DEF Identification
    <2>3. /\ IsSound(NamedNodes!Chain(0, m, Identification).md)
          /\ Grows(m, NamedNodes!Chain(0, m, Identification).md)
        BY <2>1, <2>2, NamedRules, NamedNodes!ChainHolds
    <2> QED
        BY <2>3, EachNamed DEF Gains
<1>3. MayItem(0, named.md, f)
    <2>1. MayItem(0, m, f)
        BY DEF MayItem
    <2> QED
        BY <1>2, <2>1, ItemStays DEF Gains
<1> HIDE DEF named, f
<1>4. Gains(named.md, a) /\ MayItem(0, a.md, ItemOf(a)) /\ MayItem(0, a.md, f)
    <2>1. Gains(named.md, a) /\ a.is \in 0 .. Len(a.md.mdnodes)
        BY <1>2, <1>3, GetItem DEF Gains
    <2>2. MayItem(0, a.md, ItemOf(a))
        BY <2>1 DEF MayItem, ItemOf
    <2> QED
        BY <1>2, <1>3, <2>1, <2>2, ItemStays DEF Gains
<1> HIDE DEF a
<1> DEFINE From(x, y) == IsSound(y.md) /\ Grows(x.md, y.md)
<1>5. /\ From(a, b) /\ MayItem(0, b.md, ItemOf(b))
    <2>1. <<>> \in Seq({}) /\ IsSound(a.md)
        BY <1>4 DEF Gains
    <2> QED
        BY <2>1, NextNode DEF ItemOf
<1> HIDE DEF b
<1>6. From(b, c) /\ MayItem(0, c.md, ItemOf(c))
    <2> DEFINE x == <<"int", 0>>
               y == ItemOf(b)
    <2>1. \A z \in {x, y} : MayItem(0, b.md, z)
        BY <1>5, PlainItems
    <2>2. c = NodeOf(b.md, <<x, y, y>>) /\ IsSound(b.md)
        BY <1>5
    <2> HIDE DEF x, y, c
    <2>3. <<x, y, y>> \in Seq({x, y})
        OBVIOUS
    <2> QED
        BY <2>1, <2>2, <2>3, NextNode DEF ItemOf
<1> HIDE DEF c
<1>7. From(c, d) /\ MayItem(0, d.md, ItemOf(d))
    <2> DEFINE x == ItemOf(c)
    <2>1. \A z \in {x} : MayItem(0, c.md, z)
        BY <1>6
    <2>2. d = NodeOf(c.md, <<x>>) /\ IsSound(c.md)
        BY <1>6
    <2> HIDE DEF x, d
    <2>3. <<x>> \in Seq({x})
        OBVIOUS
    <2> QED
        BY <2>1, <2>2, <2>3, NextNode DEF ItemOf
<1> HIDE DEF d
<1>8. IsSound(a.md) /\ Grows(a.md, d.md)
    BY <1>4, <1>5, <1>6, <1>7, GrowsTransitive DEF Gains
<1>9. MayItem(0, d.md, ItemOf(a)) /\ MayItem(0, d.md, f)
    BY <1>4, <1>7, <1>8, ItemStays
<1>10. From(d, e)
    <2> DEFINE x == <<"int", 1>>
               y == ItemOf(a)
               w == ItemOf(d)
    <2>1. \A z \in {x, y, w} : MayItem(0, d.md, z)
        BY <1>7, <1>9, PlainItems
    <2>2. e = NodeOf(d.md, <<x, y, w>>) /\ IsSound(d.md)
        BY <1>7
    <2> HIDE DEF x, y, w, e
    <2>3. <<x, y, w>> \in Seq({x, y, w})
        OBVIOUS
    <2> QED
        BY <2>1, <2>2, <2>3, NextNode
<1> HIDE DEF e
<1>11. From(e, g) /\ MayItem(0, g.md, ItemOf(g))
    <2> DEFINE x == <<"int", 1>>
    <2>1. \A z \in {x} : MayItem(0, e.md, z)
        BY PlainItems
    <2>2. g = NodeOf(e.md, <<x, x, x>>) /\ IsSound(e.md)
        BY <1>10
    <2> HIDE DEF x, g
    <2>3. <<x, x, x>> \in Seq({x})
        OBVIOUS
    <2> QED
        BY <2>1, <2>2, <2>3, NextNode DEF ItemOf
<1> HIDE DEF g
<1>12. From(g, h) /\ MayItem(0, h.md, ItemOf(h))
    <2> DEFINE x == <<"int", 4>>
               y == ItemOf(g)
    <2>1. \A z \in {x, y} : MayItem(0, g.md, z)
        BY <1>11, PlainItems
    <2>2. h = NodeOf(g.md, <<x, y>>) /\ IsSound(g.md)
        BY <1>11
    <2> HIDE DEF x, y, h
    <2>3. <<x, y>> \in Seq({x, y})
        OBVIOUS
    <2> QED
        BY <2>1, <2>2, <2>3, NextNode DEF ItemOf
<1> HIDE DEF h
<1>13. MayItem(0, h.md, f)
    <2>1. Grows(d.md, h.md)
        BY <1>10, <1>11, <1>12, GrowsTransitive
    <2> QED
        BY <1>7, <1>9, <1>12, <2>1, ItemStays
<1>14. From(h, k)
    <2> DEFINE x == <<"string", h.md.funcs[f[2]].name>>
               y == <<"node", 0>>
               w == ItemOf(h)
    <2>1. \A z \in {f, x, y, w} : MayItem(0, h.md, z)
        BY <1>12, <1>13, PlainItems, NullItem
    <2>2. k = NodeOf(h.md, <<f, x, y, y, w>>) /\ IsSound(h.md)
        BY <1>12
    <2> HIDE DEF x, y, w, k
    <2>3. <<f, x, y, y, w>> \in Seq({f, x, y, w})
        OBVIOUS
    <2> QED
        BY <2>1, <2>2, <2>3, NextNode
<1> HIDE DEF k
<1>15. IsSound(p) /\ Grows(k.md, p)
    BY <1>14, NamedNodeGains
<1> HIDE DEF p
<1>16. IsSound(q) /\ Grows(p, q)
    BY <1>15, NamedNodeGains
<1> HIDE DEF q
<1>17. Grows(m, q)
    <2>1. Grows(m, d.md)
        BY <1>2, <1>4, <1>8, GrowsTransitive DEF Gains
    <2>2. Grows(m, h.md)
        BY <1>10, <1>11, <1>12, <2>1, GrowsTransitive
    <2> QED
        BY <1>14, <1>15, <1>16, <2>2, GrowsTransitive
<1> QED
    BY <1>1, <1>16, <1>17
-----------------------------------------------------------------------------
(* Requests.                                                               *)
LEMMA KindsOfRequests ==
    ASSUME NEW req \in Lookups
    PROVE  /\ req.call \in {"function", "int", "float", "res_type", "res_bind"}
           /\ req.call = "function" => /\ req.name \in DOMAIN Predefined
                                       /\ req.overload \in Overloads
           /\ req.call = "float" => <<req.of[1], req.of[2]>> \in Floats
           /\ req.call = "res_type" => req.of.comp \in Scalars
<1>1. \/ /\ req.call = "function"
         /\ req.name \in DOMAIN Predefined /\ req.overload \in Overloads
      \/ req.call = "int"
      \/ req.call = "float" /\ req.of \in Floats
      \/ req.call = "res_type" /\ req.of \in ResTypes
      \/ req.call = "res_bind"
    BY DEF Lookups
<1> QED
    BY <1>1, DescriptionsAreSpelled

LEMMA LookAnswers ==
    ASSUME NEW m, IsSound(m), NEW req \in Lookups, Sensible(req),
           NEW r, r = Look(m, req)
    PROVE  Gains(m, r) /\ Knows(r.md, req, r.is)
<1>1. CASE req.call = "function"
    <2>1. r = dxil_get_function(m, req.name, req.overload)
        BY <1>1 DEF Look
    <2>2. IsAskedFor(req.name, req.overload)
        BY <1>1, KindsOfRequests DEF IsAskedFor, Sensible
    <2>3. Gains(m, r) /\ HasFunction(r.md, req.name, req.overload, r.is)
        BY <2>1, <2>2, GetFunction
    <2> QED
        BY <1>1, <2>3 DEF Knows
<1>2. CASE req.call = "int"
    <2>1. r = get_int_const(m, req.of[1], req.of[2])
        BY <1>2 DEF Look
    <2> QED
        BY <1>2, <2>1, GetInt DEF Knows
<1>3. CASE req.call = "float"
    <2>1. r = dxil_module_get_float_const(m, req.of[1], req.of[2])
        BY <1>3 DEF Look
    <2>2. <<req.of[1], req.of[2]>> \in Floats
        BY <1>3, KindsOfRequests
    <2> QED
        BY <1>3, <2>1, <2>2, GetFloat DEF Knows
<1>4. CASE req.call = "res_type"
    <2> DEFINE t == dxil_module_get_res_type(m, req.of)
    <2>1. r = Answer(t.md, <<"type", t.is>>)
        BY <1>4 DEF Look
    <2>2. Gains(m, t) /\ HasResource(t.md, req.of, t.is)
        BY <1>4, KindsOfRequests, GetResource
    <2> HIDE DEF t
    <2>3. r.md = t.md /\ r.is = <<"type", t.is>> /\ r.is[2] = t.is
        BY <2>1 DEF Answer
    <2> QED
        BY <1>4, <2>2, <2>3 DEF Knows, Gains
<1>5. CASE req.call = "res_bind"
    <2>1. r = dxil_module_get_res_bind_const(m, req.of)
        BY <1>5 DEF Look
    <2> QED
        BY <1>5, <2>1, GetBinding DEF Knows
<1> QED
    BY <1>1, <1>2, <1>3, <1>4, <1>5, KindsOfRequests

LEMMA KnowsStays ==
    ASSUME NEW m, IsSound(m), NEW r, IsSound(r), Grows(m, r),
           NEW req \in Lookups, NEW is, Knows(m, req, is)
    PROVE  Knows(r, req, is)
<1>0. HasLists(m) /\ HasLists(r)
    BY SoundHasLists
<1>1. CASE req.call = "function"
    BY <1>1 DEF Knows, HasFunction, Grows
<1>2. CASE req.call = "int"
    BY <1>0, <1>2, IntStays DEF Knows
<1>3. CASE req.call = "float"
    BY <1>0, <1>3, FloatStays DEF Knows
<1>4. CASE req.call = "res_type"
    BY <1>0, <1>4, ResourceStays DEF Knows
<1>5. CASE req.call = "res_bind"
    BY <1>0, <1>5, BindingStays DEF Knows
<1> QED
    BY <1>1, <1>2, <1>3, <1>4, <1>5, KindsOfRequests

LEMMA LookKnown ==
    ASSUME NEW m, IsSound(m), NEW req \in Lookups, NEW is, Knows(m, req, is),
           ~ AsksForNaN(req)
    PROVE  Look(m, req) = Answer(m, is)
<1>1. CASE req.call = "function"
    BY <1>1, GetFunctionKnown DEF Knows, Look
<1>2. CASE req.call = "int"
    BY <1>2, GetIntKnown DEF Knows, Look
<1>3. CASE req.call = "float"
    BY <1>3, GetFloatKnown DEF Knows, Look, AsksForNaN
<1>4. CASE req.call = "res_type"
    <2>1. is = <<"type", is[2]>> /\ HasResource(m, req.of, is[2])
        BY <1>4 DEF Knows
    <2>2. dxil_module_get_res_type(m, req.of) = Answer(m, is[2])
        BY <1>4, <2>1, KindsOfRequests, GetResourceKnown
    <2>3. Answer(m, is[2]).md = m /\ Answer(m, is[2]).is = is[2]
        BY DEF Answer
    <2>4. Look(m, req) = Answer(m, <<"type", is[2]>>)
        BY <1>4, <2>2, <2>3 DEF Look
    <2> QED
        BY <2>1, <2>4
<1>5. CASE req.call = "res_bind"
    BY <1>5, GetBindingKnown DEF Knows, Look
<1> QED
    BY <1>1, <1>2, <1>3, <1>4, <1>5, KindsOfRequests

LEMMA LookForNaN ==
    ASSUME NEW m, IsSound(m), NEW req \in Lookups, NEW is, Knows(m, req, is),
           AsksForNaN(req)
    PROVE  Look(m, req) = create_const(m, m.consts[is[2]])
BY GetNaNAgain DEF Knows, Look, AsksForNaN
-----------------------------------------------------------------------------
(* The inductive invariant                                                 *)
LEMMA InitialModule == BuildInit => BuildInv
<1> SUFFICES ASSUME BuildInit PROVE BuildInv
    OBVIOUS
<1> DEFINE m == EmptyModule
<1>1. /\ m.types = <<>> /\ m.consts = <<>> /\ m.funcs = <<>>
      /\ m.attrs = <<>> /\ m.mdnodes = <<>> /\ m.functions = {}
      /\ DOMAIN m = ModuleFields
    BY DEF EmptyModule, ModuleFields
<1> HIDE DEF m
<1>2. IsList(<<>>) /\ Len(<<>>) = 0
    BY DEF IsList, ToSet
<1>3. HasLists(m)
    BY <1>1, <1>2 DEF HasLists
<1>4. /\ TypesAreSound(m) /\ ConstsAreSound(m) /\ NodesAreSound(m)
      /\ AttrsAreSound(m) /\ FuncsAreSound(m) /\ PrototypesAreSound(m)
    BY <1>1, <1>2 DEF TypesAreSound, ConstsAreSound, NodesAreSound,
                      AttrsAreSound, FuncsAreSound, PrototypesAreSound
<1>5. IsSound(m)
    BY <1>3, <1>4, SoundParts
<1> QED
    BY <1>5 DEF BuildInit, BuildInv, m

(* A module that grows keeps what is known, and the entry point it has.    *)
LEMMA KnowledgeStays ==
    ASSUME BuildInv, IsSound(mod'), Grows(mod, mod')
    PROVE  /\ \A a \in asked : /\ a.req \in Lookups /\ Sensible(a.req)
                               /\ Knows(mod', a.req, a.is)
           /\ HasMain => HasMain'
<1>1. ASSUME NEW a \in asked
      PROVE  /\ a.req \in Lookups /\ Sensible(a.req)
             /\ Knows(mod', a.req, a.is)
    BY KnowsStays DEF BuildInv
<1>2. HasMain => HasMain'
    BY DEF HasMain, Grows, Longer
<1> QED
    BY <1>1, <1>2

LEMMA OtherStep ==
    ASSUME BuildInv, IsSound(mod'), Grows(mod, mod'), asked' = asked,
           pc' \in {"body", "annotate"} => HasMain \/ HasMain'
    PROVE  BuildInv'
BY KnowledgeStays DEF BuildInv

LEMMA AskStep ==
    ASSUME BuildInv, NEW req \in Lookups, Ask(req)
    PROVE  BuildInv'
<1> DEFINE r == Look(mod, req)
           e == [req |-> req, is |-> r.is]
<1>1. mod' = r.md /\ asked' = asked \union {e} /\ pc' = pc
    BY DEF Ask
<1>2. IsSound(mod) /\ Sensible(req)
    BY DEF BuildInv, Ask
<1>3. Gains(mod, r) /\ Knows(r.md, req, r.is)
    BY <1>2, LookAnswers
<1>4. e.req = req /\ e.is = r.is
    OBVIOUS
<1> HIDE DEF r, e
<1>5. IsSound(mod') /\ Grows(mod, mod')
    BY <1>1, <1>3 DEF Gains
<1>6. e.req \in Lookups /\ Sensible(e.req) /\ Knows(mod', e.req, e.is)
    BY <1>1, <1>2, <1>3, <1>4
<1>7. \A a \in asked' : /\ a.req \in Lookups /\ Sensible(a.req)
                        /\ Knows(mod', a.req, a.is)
    BY <1>1, <1>5, <1>6, KnowledgeStays
<1>8. pc' \in {"body", "annotate"} => HasMain'
    BY <1>1, <1>5, KnowledgeStays DEF BuildInv
<1> QED
    BY <1>5, <1>7, <1>8 DEF BuildInv

LEMMA CallStep ==
    ASSUME BuildInv, NEW name, NEW ov, Call(name, ov)
    PROVE  BuildInv'
<1> DEFINE f == dxil_get_function(mod, name, ov)
           req == [call |-> "function", name |-> name, overload |-> ov]
<1>1. /\ mod' = EmitCall(f.md, f.is).md
      /\ asked' = asked /\ pc' = pc /\ pc = "body"
    BY DEF Call
<1>2. PICK a \in asked : a.req = req
    BY DEF Call
<1>3. req.call = "function" /\ req.name = name /\ req.overload = ov
    OBVIOUS
<1> HIDE DEF req
<1>4. IsSound(mod) /\ HasFunction(mod, name, ov, a.is)
    BY <1>2, <1>3 DEF BuildInv, Knows
<1>5. f = Answer(mod, a.is)
    BY <1>4, GetFunctionKnown
<1>6. f.md = mod /\ f.is = a.is
    BY <1>5 DEF Answer
<1> HIDE DEF f
<1>7. IsSound(mod') /\ Grows(mod, mod')
    BY <1>1, <1>4, <1>6, EmitCallGains DEF Gains
<1> QED
    BY <1>1, <1>7, OtherStep DEF BuildInv

LEMMA BuildStep == BuildInv /\ [Build \/ Written]_buildVars => BuildInv'
<1> SUFFICES ASSUME BuildInv, [Build \/ Written]_buildVars
             PROVE  BuildInv'
    OBVIOUS
<1>0. IsSound(mod)
    BY DEF BuildInv
<1>1. CASE \E req \in Lookups : Ask(req)
    BY <1>1, AskStep
<1>2. CASE AddGlobal
    <2>1. mod' = GlobalOf(mod) /\ asked' = asked /\ pc' = pc
        BY <1>2 DEF AddGlobal, GlobalOf
    <2>2. IsSound(mod') /\ Grows(mod, mod')
        BY <1>0, <2>1, GlobalGains
    <2> QED
        BY <2>1, <2>2, OtherStep DEF BuildInv
<1>3. CASE \E keys \in {<<>>, <<<<102>>>>} : BeginFunction(keys)
    <2>1. PICK keys : BeginFunction(keys)
        BY <1>3
    <2>2. mod' = dxil_add_function_def(mod, <<109>>, keys).md /\ asked' = asked
        BY <2>1 DEF BeginFunction
    <2>3. IsSound(mod') /\ Grows(mod, mod') /\ HasMain'
        BY <1>0, <2>2, AddFunctionDef DEF Gains, HasMain
    <2> QED
        BY <2>2, <2>3, OtherStep
<1>4. CASE \E name \in DOMAIN Predefined, ov \in Overloads : Call(name, ov)
    BY <1>4, CallStep
<1>5. CASE EndFunction
    <2>1. mod' = dxil_emit_ret_void(mod).md /\ asked' = asked /\ HasMain
        BY <1>5 DEF EndFunction, BuildInv
    <2>2. IsSound(mod') /\ Grows(mod, mod')
        BY <1>0, <2>1, EmitRet DEF Gains
    <2> QED
        BY <2>1, <2>2, OtherStep
<1>6. CASE AddMetadata
    <2>1. /\ mod' = nir_emit_metadata(mod, <<"func", Main>>)
          /\ asked' = asked /\ pc' = "header" /\ HasMain
        BY <1>6 DEF AddMetadata, BuildInv
    <2>2. DOMAIN mod.funcs = 1 .. Len(mod.funcs)
        BY <1>0, SoundHasLists, ListType DEF HasLists
    <2>3. Main \in 1 .. Len(mod.funcs)
        BY <2>1, <2>2 DEF Main, HasMain
    <2>4. IsSound(mod') /\ Grows(mod, mod')
        BY <1>0, <2>1, <2>3, MetadataGains
    <2> QED
        BY <2>1, <2>4, OtherStep
<1>7. CASE Written
    <2>1. mod' = mod /\ asked' = asked /\ pc' \notin {"body", "annotate"}
        BY <1>7 DEF Written, BuildStages
    <2> QED
        BY <2>1 DEF BuildInv, HasMain
<1>8. CASE UNCHANGED buildVars
    BY <1>8 DEF buildVars, BuildInv, HasMain
<1> QED
    BY <1>1, <1>2, <1>3, <1>4, <1>5, <1>6, <1>7, <1>8 DEF Build

(* Every entry that a module refers to is listed before it, types,         *)
(* constants, functions and attribute sets are what they are used as, and  *)
(* what was asked for is there.                                            *)
THEOREM Building_BuildInv == BuildSpec => []BuildInv
BY InitialModule, BuildStep, PTL DEF BuildSpec
-----------------------------------------------------------------------------
(* Theorems.                                                               *)
LEMMA ListsOf == BuildInv => ListsAreSound
<1> SUFFICES ASSUME BuildInv PROVE ListsAreSound
    OBVIOUS
<1>1. IsSound(mod)
    BY DEF BuildInv
<1>2. HasLists(mod)
    BY <1>1, SoundHasLists
<1>3. /\ Len(mod.types) \in Nat /\ DOMAIN mod.types = 1 .. Len(mod.types)
      /\ Len(mod.consts) \in Nat /\ DOMAIN mod.consts = 1 .. Len(mod.consts)
      /\ Len(mod.funcs) \in Nat /\ DOMAIN mod.funcs = 1 .. Len(mod.funcs)
      /\ Len(mod.attrs) \in Nat /\ DOMAIN mod.attrs = 1 .. Len(mod.attrs)
      /\ Len(mod.mdnodes) \in Nat /\ DOMAIN mod.mdnodes = 1 .. Len(mod.mdnodes)
    BY <1>2, ListType DEF HasLists
<1>4. ASSUME NEW t, NEW n \in Nat, RefersTo(t, n)
      PROVE  RefersBack(t, n)
    <2>1. \A s \in Seq(0 .. n - 1) : \A k \in DOMAIN s : s[k] < n
        OBVIOUS
    <2>2. \A i \in 0 .. n - 1 : i < n
        OBVIOUS
    <2> QED
        BY <1>4, <2>1, <2>2 DEF RefersTo, RefersBack
<1>5. \A i \in DOMAIN mod.types : RefersBack(mod.types[i], i - 1)
    <2> SUFFICES ASSUME NEW i \in DOMAIN mod.types
                 PROVE  RefersBack(mod.types[i], i - 1)
        OBVIOUS
    <2>1. i - 1 \in Nat /\ RefersTo(mod.types[i], i - 1)
        BY <1>1, <1>3 DEF IsSound, TypesAreSound
    <2> QED
        BY <1>4, <2>1
<1>6. \A i \in DOMAIN mod.consts : mod.consts[i].kind = "aggregate" =>
         \A v \in ToSet(mod.consts[i].value) : v[1] = "const" /\ v[2] < i
    <2> SUFFICES ASSUME NEW i \in DOMAIN mod.consts,
                        mod.consts[i].kind = "aggregate",
                        NEW v \in ToSet(mod.consts[i].value)
                 PROVE  v[1] = "const" /\ v[2] < i
        OBVIOUS
    <2>1. IsTyped(mod, mod.consts[i], i - 1)
        BY <1>1, <1>3 DEF IsSound, ConstsAreSound
    <2>2. mod.consts[i].value \in Seq({Const(j) : j \in 1 .. i - 1})
        BY <2>1 DEF IsTyped
    <2>3. v \in {Const(j) : j \in 1 .. i - 1}
        BY <2>2 DEF ToSet
    <2> QED
        BY <1>3, <2>3 DEF Const
<1>7. \A i \in DOMAIN mod.mdnodes : mod.mdnodes[i].kind = "node" =>
         \A k \in ToSet(mod.mdnodes[i].subnodes) : k < i
    <2> SUFFICES ASSUME NEW i \in DOMAIN mod.mdnodes,
                        mod.mdnodes[i].kind = "node",
                        NEW k \in ToSet(mod.mdnodes[i].subnodes)
                 PROVE  k < i
        OBVIOUS
    <2>1. mod.mdnodes[i].subnodes \in Seq(0 .. i - 1)
        BY <1>1, <1>3 DEF IsSound, NodesAreSound
    <2>2. k \in 0 .. i - 1
        <3> DEFINE s == mod.mdnodes[i].subnodes
        <3>1. s \in Seq(0 .. i - 1) /\ k \in ToSet(s)
            BY <2>1
        <3> HIDE DEF s
        <3>2. PICK j \in DOMAIN s : k = s[j]
            BY <3>1 DEF ToSet
        <3>3. j \in 1 .. Len(s)
            BY <3>1, <3>2
        <3>4. s[j] \in 0 .. i - 1
            BY <3>1, <3>3, ElementOfSeq
        <3> QED
            BY <3>2, <3>4
    <2> QED
        BY <1>3, <2>2
<1>8. \A f \in ToSet(mod.funcs) :
         f.attr_set \in (IF f.decl THEN 1 ELSE 0) .. Len(mod.attrs)
    BY <1>1, <1>3 DEF IsSound, FuncsAreSound, ToSet
<1>9. \A i, j \in DOMAIN mod.types :
         mod.types[i] = mod.types[j] => i = j \/ mod.types[i].kind = "function"
    BY <1>1, <1>3 DEF IsSound, TypesAreSound
<1>10. \A i, j \in DOMAIN mod.consts :
          mod.consts[i] = mod.consts[j] => i = j \/ IsNaNConst(mod, mod.consts[i])
    BY <1>1, <1>3 DEF IsSound, ConstsAreSound
<1>11. \A i, j \in DOMAIN mod.mdnodes : mod.mdnodes[i] = mod.mdnodes[j] => i = j
    BY <1>1, <1>3 DEF IsSound, NodesAreSound
<1>12. \A i, j \in DOMAIN mod.attrs : mod.attrs[i] = mod.attrs[j] => i = j
    BY <1>1, <1>3 DEF IsSound, AttrsAreSound
<1> QED
    BY <1>5, <1>6, <1>7, <1>8, <1>9, <1>10, <1>11, <1>12
       DEF ListsAreSound, Distinct

(* A type, an aggregate and a node only refer to entries listed before     *)
(* them, and no list has an entry twice, function types and NaN constants  *)
(* aside, after any requests in any order.                                 *)
THEOREM Building_ListsAreSound == BuildSpec => []ListsAreSound
BY Building_BuildInv, ListsOf, PTL

(* A lookup that is made again finds the entry it found before and leaves  *)
(* the module alone, whatever was built in between; only a NaN is added    *)
(* once more, and nothing else with it.                                    *)
THEOREM Building_AnswersAreStable == BuildSpec => []AnswersAreStable
<1>1. BuildInv => AnswersAreStable
    BY LookKnown, LookForNaN DEF BuildInv, AnswersAreStable
<1> QED
    BY <1>1, Building_BuildInv, PTL
-----------------------------------------------------------------------------
(* What an entry stands for.  The tree of a type is a recursive function   *)
(* on the ids up to its own: it exists, it is the only one, and so that of *)
(* a type is made of those of the types it refers to.                      *)
Trees(f, ids) == [k \in DOMAIN ids |-> f[ids[k]]]

TreeAt(md, f, i) ==
    LET t == md.types[i + 1]
    IN  CASE t.kind = "pointer" -> [t EXCEPT !.target = f[t.target]]
          [] t.kind = "struct" -> [t EXCEPT !.elems = Trees(f, t.elems)]
          [] t.kind \in {"array", "vector"} -> [t EXCEPT !.elem = f[@]]
          [] t.kind = "function" -> [t EXCEPT !.ret = f[@],
                                              !.args = Trees(f, t.args)]
          [] OTHER -> t

IsForest(md, n, f) == f = [i \in 0 .. n |-> TreeAt(md, f, i)]

LEMMA TreeOfForest ==
    \A md, id : TypeTree(md, id) = (CHOOSE f : IsForest(md, id, f))[id]
BY DEF TypeTree, IsForest, TreeAt, Trees

(* A tree depends on those of the types listed before its own only.        *)
LEMMA SameTree ==
    ASSUME NEW m, IsSound(m), NEW i \in Ids(m), NEW f, NEW g,
           \A j \in 0 .. i - 1 : f[j] = g[j]
    PROVE  TreeAt(m, f, i) = TreeAt(m, g, i)
<1> DEFINE t == m.types[i + 1]
<1>1. Len(m.types) \in Nat
    BY SoundHasLists, LengthsOf
<1>2. i \in Nat /\ i + 1 \in 1 .. Len(m.types) /\ i + 1 - 1 = i
    BY <1>1 DEF Ids
<1>3. RefersTo(t, i)
    <2> DEFINE j == i + 1
    <2>1. j \in 1 .. Len(m.types) /\ j - 1 = i
        BY <1>2
    <2> HIDE DEF j
    <2>2. RefersTo(m.types[j], j - 1)
        BY <2>1 DEF IsSound, TypesAreSound
    <2> QED
        BY <2>1, <2>2 DEF j
<1> HIDE DEF t
<1>4. \A s \in Seq(0 .. i - 1) : Trees(f, s) = Trees(g, s)
    <2> SUFFICES ASSUME NEW s \in Seq(0 .. i - 1)
                 PROVE  Trees(f, s) = Trees(g, s)
        OBVIOUS
    <2>1. \A k \in DOMAIN s : s[k] \in 0 .. i - 1
        BY ElementOfSeq, LenProperties
    <2>2. \A k \in DOMAIN s : f[s[k]] = g[s[k]]
        BY <2>1
    <2> QED
        BY <2>2, Zenon DEF Trees
<1>5. CASE t.kind = "pointer"
    BY <1>3, <1>5, Zenon DEF TreeAt, RefersTo, t
<1>6. CASE t.kind = "struct"
    <2>1. Trees(f, t.elems) = Trees(g, t.elems)
        BY <1>3, <1>4, <1>6 DEF RefersTo
    <2>2. \A h : TreeAt(m, h, i) = [t EXCEPT !.elems = Trees(h, t.elems)]
        BY <1>6 DEF TreeAt, t
    <2> QED
        BY <2>1, <2>2, Zenon
<1>7. CASE t.kind \in {"array", "vector"}
    <2>1. f[t.elem] = g[t.elem]
        BY <1>3, <1>7 DEF RefersTo
    <2>2. \A h : TreeAt(m, h, i) = [t EXCEPT !.elem = h[t.elem]]
        BY <1>7 DEF TreeAt, t
    <2> QED
        BY <2>1, <2>2, Zenon
<1>8. CASE t.kind = "function"
    <2>1. Trees(f, t.args) = Trees(g, t.args) /\ f[t.ret] = g[t.ret]
        BY <1>3, <1>4, <1>8 DEF RefersTo
    <2>2. \A h : TreeAt(m, h, i) = [t EXCEPT !.ret = h[t.ret],
                                             !.args = Trees(h, t.args)]
        BY <1>8 DEF TreeAt, t
    <2> QED
        BY <2>1, <2>2, Zenon
<1>9. CASE t.kind \notin {"pointer", "struct", "array", "vector", "function"}
    BY <1>9 DEF TreeAt, t
<1> QED
    BY <1>5, <1>6, <1>7, <1>8, <1>9

LEMMA InForest ==
    ASSUME NEW m, NEW n, NEW f, IsForest(m, n, f), NEW i \in 0 .. n
    PROVE  f[i] = TreeAt(m, f, i)
<1> DEFINE h == [j \in 0 .. n |-> TreeAt(m, f, j)]
<1>1. f = h
    BY DEF IsForest
<1>2. h[i] = TreeAt(m, f, i)
    OBVIOUS
<1> HIDE DEF h
<1> QED
    BY <1>1, <1>2, Zenon

LEMMA ForestExists ==
    ASSUME NEW m, IsSound(m), NEW n \in Ids(m)
    PROVE  \E f : IsForest(m, n, f)
<1> DEFINE T == {k \in 0 .. n : \E f : IsForest(m, k, f)}
<1>1. n \in Nat /\ 0 .. n \subseteq Ids(m)
    <2>1. Len(m.types) \in Nat
        BY SoundHasLists, LengthsOf
    <2> QED
        BY <2>1 DEF Ids
<1>2. 0 \in T
    <2> DEFINE g == [i \in 0 .. 0 |-> TreeAt(m, <<>>, 0)]
    <2>1. TreeAt(m, g, 0) = TreeAt(m, <<>>, 0)
        <3>1. 0 \in Ids(m)
            BY <1>1
        <3>2. \A j \in 0 .. 0 - 1 : g[j] = <<>>[j]
            OBVIOUS
        <3> HIDE DEF g
        <3> QED
            BY <3>1, <3>2, SameTree
    <2>2. g = [i \in 0 .. 0 |-> TreeAt(m, g, i)]
        BY <2>1
    <2> HIDE DEF g
    <2>3. IsForest(m, 0, g)
        BY <2>2 DEF IsForest
    <2> QED
        BY <1>1, <2>3
<1>3. ASSUME NEW k \in 1 .. n, k - 1 \in T
      PROVE  k \in T
    <2>1. PICK f : IsForest(m, k - 1, f)
        BY <1>3
    <2> DEFINE g == [i \in 0 .. k |-> IF i = k THEN TreeAt(m, f, k) ELSE f[i]]
    <2>2. \A i \in 0 .. k : g[i] = TreeAt(m, g, i)
        <3> SUFFICES ASSUME NEW i \in 0 .. k PROVE g[i] = TreeAt(m, g, i)
            OBVIOUS
        <3>1. \A j \in 0 .. i - 1 : g[j] = f[j]
            BY <1>1
        <3>2. g[i] = IF i = k THEN TreeAt(m, f, k) ELSE f[i]
            OBVIOUS
        <3> HIDE DEF g
        <3>3. i \in Ids(m)
            BY <1>1
        <3>4. TreeAt(m, g, i) = TreeAt(m, f, i)
            BY <3>1, <3>3, SameTree
        <3>5. i # k => f[i] = TreeAt(m, f, i)
            BY <2>1 DEF IsForest
        <3> QED
            BY <3>2, <3>4, <3>5
    <2>3. g = [i \in 0 .. k |-> g[i]]
        OBVIOUS
    <2> HIDE DEF g
    <2>4. IsForest(m, k, g)
        BY <2>2, <2>3 DEF IsForest
    <2> QED
        BY <2>4
<1>4. T = 0 .. n
    <2>1. T \subseteq 0 .. n
        OBVIOUS
    <2> HIDE DEF T
    <2> QED
        BY <1>1, <1>2, <1>3, <2>1, Types!Upwards
<1> QED
    BY <1>1, <1>4

LEMMA ForestIsUnique ==
    ASSUME NEW m, IsSound(m), NEW n \in Ids(m), NEW k \in 0 .. n,
           NEW f, IsForest(m, n, f), NEW g, IsForest(m, k, g)
    PROVE  f[k] = g[k]
<1> DEFINE T == {j \in 0 .. k : \A i \in 0 .. j : f[i] = g[i]}
<1>1. n \in Nat /\ k \in Nat /\ 0 .. n \subseteq Ids(m)
    <2>1. Len(m.types) \in Nat
        BY SoundHasLists, LengthsOf
    <2> QED
        BY <2>1 DEF Ids
<1>2. \A i \in 0 .. k : f[i] = TreeAt(m, f, i) /\ g[i] = TreeAt(m, g, i)
    BY <1>1, InForest
<1>3. \A i \in 0 .. k : (\A j \in 0 .. i - 1 : f[j] = g[j]) => f[i] = g[i]
    <2> SUFFICES ASSUME NEW i \in 0 .. k, \A j \in 0 .. i - 1 : f[j] = g[j]
                 PROVE  f[i] = g[i]
        OBVIOUS
    <2>1. i \in Ids(m)
        BY <1>1
    <2>2. TreeAt(m, f, i) = TreeAt(m, g, i)
        BY <2>1, SameTree
    <2> QED
        BY <1>2, <2>2
<1>4. 0 \in T
    <2>1. f[0] = g[0]
        BY <1>1, <1>3
    <2> QED
        BY <1>1, <2>1
<1>5. ASSUME NEW j \in 1 .. k, j - 1 \in T
      PROVE  j \in T
    <2>1. \A i \in 0 .. j - 1 : f[i] = g[i]
        BY <1>5
    <2>2. f[j] = g[j]
        BY <1>1, <1>3, <2>1
    <2>3. \A i \in 0 .. j : i = j \/ i \in 0 .. j - 1
        BY <1>1
    <2> QED
        BY <1>1, <2>1, <2>2, <2>3
<1>6. T = 0 .. k
    <2>1. T \subseteq 0 .. k
        OBVIOUS
    <2> HIDE DEF T
    <2> QED
        BY <1>1, <1>4, <1>5, <2>1, Types!Upwards
<1> QED
    BY <1>1, <1>6

LEMMA Forest ==
    ASSUME NEW m, IsSound(m), NEW id \in Ids(m)
    PROVE  \E f : /\ TypeTree(m, id) = TreeAt(m, f, id)
                  /\ \A j \in 0 .. id - 1 : f[j] = TypeTree(m, j)
<1> DEFINE f == CHOOSE f : IsForest(m, id, f)
<1>1. id \in Nat /\ 0 .. id \subseteq Ids(m)
    <2>1. Len(m.types) \in Nat
        BY SoundHasLists, LengthsOf
    <2> QED
        BY <2>1 DEF Ids
<1>2. IsForest(m, id, f)
    BY ForestExists
<1>3. TypeTree(m, id) = f[id]
    BY TreeOfForest
<1> HIDE DEF f
<1>4. f[id] = TreeAt(m, f, id)
    BY <1>1, <1>2 DEF IsForest
<1>5. ASSUME NEW j \in 0 .. id - 1
      PROVE  f[j] = TypeTree(m, j)
    <2> DEFINE g == CHOOSE g : IsForest(m, j, g)
    <2>1. j \in Ids(m) /\ j \in 0 .. id
        BY <1>1
    <2>2. IsForest(m, j, g)
        BY <2>1, ForestExists
    <2>3. TypeTree(m, j) = g[j]
        BY TreeOfForest
    <2> HIDE DEF g
    <2>4. f[j] = g[j]
        BY <1>2, <2>1, <2>2, ForestIsUnique
    <2> QED
        BY <2>3, <2>4
<1> QED
    BY <1>3, <1>4, <1>5
-----------------------------------------------------------------------------
TreesOf(m, ids) == [k \in DOMAIN ids |-> TypeTree(m, ids[k])]

LEMMA TreeOfType ==
    ASSUME NEW m, IsSound(m), NEW t, NEW id, HasType(m, t, id)
    PROVE  \E f : /\ TypeTree(m, id) = TreeAt(m, f, id)
                  /\ m.types[id + 1] = t
                  /\ RefersTo(t, id)
                  /\ \A j \in 0 .. id - 1 : f[j] = TypeTree(m, j)
                  /\ \A s \in Seq(0 .. id - 1) : Trees(f, s) = TreesOf(m, s)
<1>1. id \in Ids(m) /\ m.types[id + 1] = t
    BY DEF HasType
<1>2. PICK f : /\ TypeTree(m, id) = TreeAt(m, f, id)
               /\ \A j \in 0 .. id - 1 : f[j] = TypeTree(m, j)
    BY <1>1, Forest
<1>3. RefersTo(t, id)
    <2> DEFINE j == id + 1
    <2>1. Len(m.types) \in Nat
        BY SoundHasLists, LengthsOf
    <2>2. j \in 1 .. Len(m.types) /\ j - 1 = id
        BY <1>1, <2>1 DEF Ids
    <2>3. m.types[j] = t
        BY <1>1
    <2> HIDE DEF j
    <2>4. RefersTo(m.types[j], j - 1)
        BY <2>2 DEF IsSound, TypesAreSound
    <2> QED
        BY <2>2, <2>3, <2>4
<1>4. \A s \in Seq(0 .. id - 1) : Trees(f, s) = TreesOf(m, s)
    <2> SUFFICES ASSUME NEW s \in Seq(0 .. id - 1)
                 PROVE  Trees(f, s) = TreesOf(m, s)
        OBVIOUS
    <2>1. \A k \in DOMAIN s : s[k] \in 0 .. id - 1
        BY ElementOfSeq, LenProperties
    <2>2. \A k \in DOMAIN s : f[s[k]] = TypeTree(m, s[k])
        BY <1>2, <2>1
    <2> QED
        BY <2>2, Zenon DEF Trees, TreesOf
<1> QED
    BY <1>1, <1>2, <1>3, <1>4

LEMMA ScalarTree ==
    ASSUME NEW m, IsSound(m), NEW t \in Scalars, NEW id, HasType(m, t, id)
    PROVE  TypeTree(m, id) = t
<1>1. PICK f : TypeTree(m, id) = TreeAt(m, f, id) /\ m.types[id + 1] = t
    BY TreeOfType
<1>2. t.kind \in {"void", "int", "float"}
    BY ScalarType
<1>3. TreeAt(m, f, id) = t
    BY <1>1, <1>2 DEF TreeAt
<1> QED
    BY <1>1, <1>3

LEMMA PointerTree ==
    ASSUME NEW m, IsSound(m), NEW b, NEW id,
           HasType(m, [kind |-> "pointer", target |-> b], id)
    PROVE  TypeTree(m, id) = [kind |-> "pointer", target |-> TypeTree(m, b)]
<1> DEFINE t == [kind |-> "pointer", target |-> b]
<1>1. t.kind = "pointer" /\ t.target = b
    OBVIOUS
<1>2. \A x : [t EXCEPT !.target = x] = [kind |-> "pointer", target |-> x]
    OBVIOUS
<1> HIDE DEF t
<1>3. PICK f : /\ TypeTree(m, id) = TreeAt(m, f, id) /\ m.types[id + 1] = t
               /\ RefersTo(t, id)
               /\ \A j \in 0 .. id - 1 : f[j] = TypeTree(m, j)
    BY TreeOfType DEF t
<1>4. f[b] = TypeTree(m, b)
    BY <1>1, <1>3 DEF RefersTo
<1>5. TreeAt(m, f, id) = [t EXCEPT !.target = f[b]]
    BY <1>1, <1>3 DEF TreeAt
<1> QED
    BY <1>2, <1>3, <1>4, <1>5

LEMMA VectorTree ==
    ASSUME NEW m, IsSound(m), NEW n, NEW b, NEW id,
           HasType(m, [kind |-> "vector", num |-> n, elem |-> b], id)
    PROVE  TypeTree(m, id) = [kind |-> "vector", num |-> n, elem |-> TypeTree(m, b)]
<1> DEFINE t == [kind |-> "vector", num |-> n, elem |-> b]
<1>1. t.kind = "vector" /\ t.elem = b
    OBVIOUS
<1>2. \A x : [t EXCEPT !.elem = x] = [kind |-> "vector", num |-> n, elem |-> x]
    OBVIOUS
<1> HIDE DEF t
<1>3. PICK f : /\ TypeTree(m, id) = TreeAt(m, f, id) /\ m.types[id + 1] = t
               /\ RefersTo(t, id)
               /\ \A j \in 0 .. id - 1 : f[j] = TypeTree(m, j)
    BY TreeOfType DEF t
<1>4. f[b] = TypeTree(m, b)
    BY <1>1, <1>3 DEF RefersTo
<1>5. TreeAt(m, f, id) = [t EXCEPT !.elem = f[b]]
    BY <1>1, <1>3 DEF TreeAt
<1> QED
    BY <1>2, <1>3, <1>4, <1>5

LEMMA FieldsTree ==
    ASSUME NEW m, IsSound(m), NEW name, NEW ids, NEW id,
           HasType(m, [kind |-> "struct", name |-> name, elems |-> ids], id)
    PROVE  /\ TypeTree(m, id) = [kind |-> "struct", name |-> name,
                                 elems |-> TreesOf(m, ids)]
           /\ ids \in Seq(0 .. id - 1)
<1> DEFINE t == [kind |-> "struct", name |-> name, elems |-> ids]
<1>1. t.kind = "struct" /\ t.elems = ids
    OBVIOUS
<1>2. \A x : [t EXCEPT !.elems = x] = [kind |-> "struct", name |-> name, elems |-> x]
    OBVIOUS
<1> HIDE DEF t
<1>3. PICK f : /\ TypeTree(m, id) = TreeAt(m, f, id) /\ m.types[id + 1] = t
               /\ RefersTo(t, id)
               /\ \A s \in Seq(0 .. id - 1) : Trees(f, s) = TreesOf(m, s)
    BY TreeOfType DEF t
<1>4. ids \in Seq(0 .. id - 1)
    BY <1>1, <1>3 DEF RefersTo
<1>5. TreeAt(m, f, id) = [t EXCEPT !.elems = Trees(f, ids)]
    BY <1>1, <1>3 DEF TreeAt
<1> QED
    BY <1>2, <1>3, <1>4, <1>5

LEMMA FunctionTree ==
    ASSUME NEW m, IsSound(m), NEW ret, NEW args, NEW id,
           HasType(m, [kind |-> "function", ret |-> ret, args |-> args], id)
    PROVE  /\ TypeTree(m, id) = [kind |-> "function", ret |-> TypeTree(m, ret),
                                 args |-> TreesOf(m, args)]
           /\ args \in Seq(0 .. id - 1)
<1> DEFINE t == [kind |-> "function", ret |-> ret, args |-> args]
<1>1. t.kind = "function" /\ t.ret = ret /\ t.args = args
    OBVIOUS
<1>2. \A x, y : [t EXCEPT !.ret = x, !.args = y]
                   = [kind |-> "function", ret |-> x, args |-> y]
  <2> SUFFICES ASSUME NEW x, NEW y
               PROVE  [t EXCEPT !.ret = x, !.args = y]
                        = [kind |-> "function", ret |-> x, args |-> y]
      OBVIOUS
  <2> DEFINE r == [t EXCEPT !.ret = x]
  <2>1. r = [kind |-> "function", ret |-> x, args |-> args]
      OBVIOUS
  <2>2. [t EXCEPT !.ret = x, !.args = y] = [r EXCEPT !.args = y]
      OBVIOUS
  <2> HIDE DEF r
  <2>3. [r EXCEPT !.args = y] = [kind |-> "function", ret |-> x, args |-> y]
      BY <2>1
  <2> QED
      BY <2>2, <2>3
<1> HIDE DEF t
<1>3. PICK f : /\ TypeTree(m, id) = TreeAt(m, f, id) /\ m.types[id + 1] = t
               /\ RefersTo(t, id)
               /\ \A j \in 0 .. id - 1 : f[j] = TypeTree(m, j)
               /\ \A s \in Seq(0 .. id - 1) : Trees(f, s) = TreesOf(m, s)
    BY TreeOfType DEF t
<1>4. args \in Seq(0 .. id - 1) /\ f[ret] = TypeTree(m, ret)
    BY <1>1, <1>3 DEF RefersTo
<1>5. TreeAt(m, f, id) = [t EXCEPT !.ret = f[ret], !.args = Trees(f, args)]
    BY <1>1, <1>3 DEF TreeAt
<1>6. Trees(f, args) = TreesOf(m, args)
    BY <1>3, <1>4
<1> QED
    BY <1>2, <1>3, <1>4, <1>5, <1>6

LEMMA TreesOfScalars ==
    ASSUME NEW m, IsSound(m), NEW ts \in Seq(Scalars),
           NEW S, NEW ids \in Seq(S), HasTypes(m, ts, ids)
    PROVE  TreesOf(m, ids) = ts
<1>1. Len(ids) = Len(ts) /\ \A k \in 1 .. Len(ts) : HasType(m, ts[k], ids[k])
    BY DEF HasTypes
<1>2. DOMAIN ids = 1 .. Len(ts) /\ ts = [k \in 1 .. Len(ts) |-> ts[k]]
    BY <1>1
<1>3. \A k \in 1 .. Len(ts) : ts[k] \in Scalars
    BY ElementOfSeq
<1>4. \A k \in 1 .. Len(ts) : TypeTree(m, ids[k]) = ts[k]
    BY <1>1, <1>3, ScalarTree
<1>5. TreesOf(m, ids) = [k \in 1 .. Len(ts) |-> ts[k]]
    BY <1>2, <1>4, Zenon DEF TreesOf
<1> QED
    BY <1>2, <1>5

LEMMA StructTree ==
    ASSUME NEW m, IsSound(m), NEW s, IsStruct(s), NEW id, HasStruct(m, s, id)
    PROVE  TypeTree(m, id) = Struct(s)
<1>1. PICK i \in 1 .. Len(m.types) :
          /\ id = i - 1
          /\ m.types[i].kind = "struct"
          /\ m.types[i] = [kind |-> "struct", name |-> s.name,
                           elems |-> m.types[i].elems]
          /\ HasTypes(m, s.elems, m.types[i].elems)
    BY DEF HasStruct
<1> DEFINE ids == m.types[i].elems
<1>2. HasTypes(m, s.elems, ids)
    BY <1>1
<1>3. HasType(m, [kind |-> "struct", name |-> s.name, elems |-> ids], id)
    <2>1. Len(m.types) \in Nat
        BY SoundHasLists, LengthsOf
    <2>2. id \in Ids(m) /\ id + 1 = i
        BY <1>1, <2>1 DEF Ids
    <2> QED
        BY <1>1, <2>2 DEF HasType
<1> HIDE DEF ids
<1>4. /\ TypeTree(m, id) = [kind |-> "struct", name |-> s.name,
                            elems |-> TreesOf(m, ids)]
      /\ ids \in Seq(0 .. id - 1)
    BY <1>3, FieldsTree
<1>5. TreesOf(m, ids) = s.elems
    BY <1>2, <1>4, TreesOfScalars DEF IsStruct
<1> QED
    BY <1>4, <1>5 DEF Struct

(* A struct with one field                                                 *)
LEMMA SmallStruct ==
    ASSUME NEW m, IsSound(m), NEW name, NEW p, NEW id,
           HasType(m, [kind |-> "struct", name |-> name, elems |-> <<p>>], id)
    PROVE  TypeTree(m, id) = [kind |-> "struct", name |-> name,
                              elems |-> <<TypeTree(m, p)>>]
<1> DEFINE x == TypeTree(m, p)
<1>1. TreesOf(m, <<p>>) = <<x>>
    <2>1. DOMAIN <<p>> = 1 .. 1 /\ <<p>>[1] = p
        OBVIOUS
    <2>2. \A k \in 1 .. 1 : TypeTree(m, <<p>>[k]) = x
        BY <2>1
    <2>3. TreesOf(m, <<p>>) = [k \in 1 .. 1 |-> x]
        BY <2>1, <2>2, Zenon DEF TreesOf
    <2> HIDE DEF x
    <2>4. [k \in 1 .. 1 |-> x] = <<x>>
        OBVIOUS
    <2> QED
        BY <2>3, <2>4
<1> QED
    BY <1>1, FieldsTree

LEMMA HandleTree ==
    ASSUME NEW m, IsSound(m), NEW ov, NEW id, HasHandle(m, id)
    PROVE  TypeTree(m, id) = TreeOf("@", ov)
<1>1. PICK b \in Ids(m), p \in Ids(m) :
          /\ HasType(m, IntType(8), b)
          /\ HasType(m, [kind |-> "pointer", target |-> b], p)
          /\ HasType(m, [kind |-> "struct", name |-> <<72>>, elems |-> <<p>>], id)
    BY DEF HasHandle
<1>2. TypeTree(m, b) = IntType(8)
    BY <1>1, ScalarTree DEF Scalars
<1>3. TypeTree(m, p) = [kind |-> "pointer", target |-> IntType(8)]
    BY <1>1, <1>2, PointerTree
<1>4. TypeTree(m, id) = [kind |-> "struct", name |-> <<72>>,
                         elems |-> <<TypeTree(m, p)>>]
    BY <1>1, SmallStruct
<1> QED
    BY <1>3, <1>4 DEF TreeOf, Struct

LEMMA ResourceTree ==
    ASSUME NEW m, IsSound(m), NEW res, res.comp \in Scalars,
           NEW id, HasResource(m, res, id)
    PROVE  IsResource(m, id, res)
<1>1. PICK c \in Ids(m), v \in Ids(m) :
          /\ HasType(m, res.comp, c)
          /\ IF res.num = 1 THEN v = c
             ELSE HasType(m, [kind |-> "vector", num |-> res.num, elem |-> c], v)
          /\ HasType(m, [kind |-> "struct", name |-> res.name,
                         elems |-> <<v>>], id)
    BY DEF HasResource
<1>2. TypeTree(m, c) = res.comp
    BY <1>1, ScalarTree
<1>3. TypeTree(m, v) = IF res.num = 1 THEN res.comp
                       ELSE [kind |-> "vector", num |-> res.num, elem |-> res.comp]
    <2>1. CASE res.num = 1
        BY <1>1, <1>2, <2>1
    <2>2. CASE res.num # 1
        BY <1>1, <1>2, <2>2, VectorTree
    <2> QED
        BY <2>1, <2>2
<1>4. TypeTree(m, id) = [kind |-> "struct", name |-> res.name,
                         elems |-> <<TypeTree(m, v)>>]
    BY <1>1, SmallStruct
<1> QED
    BY <1>3, <1>4 DEF IsResource, Struct

LEMMA LetterTree ==
    ASSUME NEW m, IsSound(m), NEW ov, NEW letter, MayLetter(ov, m, letter),
           NEW id, HasLetter(m, letter, ov, id)
    PROVE  TypeTree(m, id) = TreeOf(letter, ov)
<1>1. CASE letter = "@"
    BY <1>1, HandleTree DEF HasLetter
<1>2. CASE letter # "@" /\ letter \in Structs
    <2>1. IsStruct(StructOf(letter, ov))
        BY <1>2, StructsOfLetters DEF MayLetter
    <2> QED
        BY <1>2, <2>1, StructTree DEF HasLetter, TreeOf
<1>3. CASE letter # "@" /\ letter \notin Structs
    <2>1. ScalarOf(letter, ov) \in Scalars
        BY <1>3, ScalarOfLetters DEF MayLetter
    <2> QED
        BY <1>3, <2>1, ScalarTree DEF HasLetter, TreeOf
<1> QED
    BY <1>1, <1>2, <1>3
-----------------------------------------------------------------------------
(* What the answers refer to.                                              *)
LEMMA NumberTree ==
    ASSUME NEW m, IsSound(m), NEW t, t.kind \in {"int", "float"}, NEW id,
           HasType(m, t, id)
    PROVE  TypeTree(m, id) = t
<1>1. PICK f : TypeTree(m, id) = TreeAt(m, f, id) /\ m.types[id + 1] = t
    BY TreeOfType
<1>2. TreeAt(m, f, id) = t
    BY <1>1 DEF TreeAt
<1> QED
    BY <1>1, <1>2

LEMMA IntIsConst ==
    ASSUME NEW m, IsSound(m), NEW bits, NEW n, NEW v, HasInt(m, bits, n, v)
    PROVE  IsConst(m, v, IntType(bits), n)
<1>1. PICK t \in Ids(m) :
          /\ HasType(m, IntType(bits), t)
          /\ HasConst(m, [type |-> t, kind |-> "int", value |-> n], v)
    BY DEF HasInt
<1>2. PICK i \in 1 .. Len(m.consts) :
          v = Const(i) /\ m.consts[i] = [type |-> t, kind |-> "int", value |-> n]
    BY <1>1 DEF HasConst
<1>3. v[1] = "const" /\ v[2] = i
    BY <1>2 DEF Const
<1>4. /\ m.consts[i].type = t /\ m.consts[i].kind = "int"
      /\ m.consts[i].value = n
    BY <1>2
<1>5. IntType(bits).kind = "int"
    BY DEF IntType
<1>6. TypeTree(m, t) = IntType(bits)
    BY <1>1, <1>5, NumberTree
<1> QED
    BY <1>3, <1>4, <1>5, <1>6 DEF IsConst

(* No two floats that are asked for compare as equal and differ in their   *)
(* bits: the zeros of both signs are not both among them.                  *)
OneZero == \A v, w \in Floats :
              v[1] = w[1] /\ FloatsEqual(v[1], v[2], w[2]) => v[2] = w[2]

LEMMA FirstFloatIsConst ==
    ASSUME OneZero, NEW m, IsSound(m), NEW bits, NEW n, <<bits, n>> \in Floats,
           NEW v, HasFirstFloat(m, bits, n, v)
    PROVE  IsConst(m, v, FloatType(bits), n)
<1>1. PICK t \in Ids(m), i \in 1 .. Len(m.consts) :
          /\ HasType(m, FloatType(bits), t)
          /\ v = Const(i)
          /\ SameFloat(m.consts[i], t, bits, n)
    BY DEF HasFirstFloat
<1> DEFINE c == m.consts[i]
<1>2. v[1] = "const" /\ v[2] = i
    BY <1>1 DEF Const
<1>3. IsTyped(m, c, i - 1)
    BY DEF IsSound, ConstsAreSound
<1> HIDE DEF c
<1>4. c.type = t /\ c.kind # "undef" /\ FloatsEqual(bits, c.value, n)
    BY <1>1 DEF SameFloat, c
<1>5. FloatType(bits).kind = "float" /\ FloatType(bits).bits = bits
    BY DEF FloatType
<1>6. m.types[t + 1].kind = "float" /\ m.types[t + 1].bits = bits
    BY <1>1, <1>5 DEF HasType
<1>7. c.kind = "float" /\ <<bits, c.value>> \in Floats
    BY <1>3, <1>4, <1>6 DEF IsTyped
<1>8. c.value = n
    <2>1. \A x : <<bits, x>>[1] = bits /\ <<bits, x>>[2] = x
        OBVIOUS
    <2>2. \A x, y : /\ <<bits, x>> \in Floats /\ <<bits, y>> \in Floats
                    /\ FloatsEqual(bits, x, y)
                    => x = y
        BY <2>1 DEF OneZero
    <2> QED
        BY <1>4, <1>7, <2>2
<1>9. TypeTree(m, t) = FloatType(bits)
    BY <1>1, <1>5, NumberTree
<1> QED
    BY <1>2, <1>4, <1>5, <1>7, <1>8, <1>9 DEF IsConst, c

LEMMA NaNIsConst ==
    ASSUME NEW m, IsSound(m), NEW bits, NEW n, NEW v, HasNaN(m, bits, n, v)
    PROVE  IsConst(m, v, FloatType(bits), n)
<1> DEFINE c(t) == [type |-> t, kind |-> "float", value |-> n]
<1>1. PICK t \in Ids(m) : HasType(m, FloatType(bits), t) /\ HasConst(m, c(t), v)
    BY DEF HasNaN
<1>2. v[1] = "const" /\ m.consts[v[2]] = c(t)
    BY <1>1 DEF HasConst, Const
<1>3. c(t).type = t /\ c(t).kind = "float" /\ c(t).value = n
    OBVIOUS
<1>4. FloatType(bits).kind = "float"
    BY DEF FloatType
<1>5. TypeTree(m, t) = FloatType(bits)
    BY <1>1, <1>4, NumberTree
<1> HIDE DEF c
<1> QED
    BY <1>2, <1>3, <1>4, <1>5 DEF IsConst

LEMMA FloatIsConst ==
    ASSUME OneZero, NEW m, IsSound(m), NEW bits, NEW n, <<bits, n>> \in Floats,
           NEW v, HasFloat(m, bits, n, v)
    PROVE  IsConst(m, v, FloatType(bits), n)
BY FirstFloatIsConst, NaNIsConst DEF HasFloat

LEMMA BindingIsTrue ==
    ASSUME NEW m, IsSound(m), NEW b, NEW v, HasBinding(m, b, v)
    PROVE  IsBinding(m, v, b)
<1>1. PICK i \in 1 .. Len(m.consts) :
          /\ v = Const(i)
          /\ HasStruct(m, StructOf("#", Void), m.consts[i].type)
          /\ \A k \in 1 .. 4 : HasInt(m, Numbers(b)[k][1], Numbers(b)[k][2],
                                      m.consts[i].value[k])
    BY DEF HasBinding
<1>2. v[2] = i
    BY <1>1 DEF Const
<1>3. IsStruct(StructOf("#", Void))
    BY StructsOfLetters DEF Structs, Scalars
<1>4. TypeTree(m, m.consts[i].type) = Struct(StructOf("#", Void))
    BY <1>1, <1>3, StructTree
<1>5. TreeOf("#", Void) = Struct(StructOf("#", Void))
    BY DEF TreeOf, Structs
<1>6. \A k \in 1 .. 4 : IsConst(m, m.consts[i].value[k],
                                IntType(Numbers(b)[k][1]), Numbers(b)[k][2])
    BY <1>1, IntIsConst
<1> QED
    BY <1>2, <1>4, <1>5, <1>6 DEF IsBinding

LEMMA FunctionIsTrue ==
    ASSUME NEW m, IsSound(m), NEW name, NEW ov, IsAskedFor(name, ov), NEW v,
           HasFunction(m, name, ov, v)
    PROVE  IsFunction(m, v, name, ov)
<1> DEFINE p == Predefined[name]
           e == [name |-> name, overload |-> ov, func |-> v]
<1>1. e.name = name /\ e.overload = ov /\ e.func = v
    OBVIOUS
<1>2. e \in m.functions
    BY DEF HasFunction
<1> HIDE DEF e
<1>3. PICK i \in 1 .. Len(m.funcs) :
          /\ e = [name |-> e.name, overload |-> e.overload, func |-> <<"func", i>>]
          /\ IsPrototype(m, m.funcs[i], e.name, e.overload)
    BY <1>2 DEF IsSound, PrototypesAreSound
<1>4. v = <<"func", i>>
    BY <1>1, <1>3
<1>5. v[1] = "func" /\ v[2] = i
    BY <1>4
<1> DEFINE f == m.funcs[i]
           t == m.types[f.type + 1]
<1>6. IsPrototype(m, f, name, ov)
    BY <1>1, <1>3
<1>7. IsFunctionType(m, f.type)
    BY DEF IsSound, FuncsAreSound
<1> HIDE DEF f
<1>8. /\ name \in DOMAIN Predefined
      /\ f.decl = TRUE /\ f.name = FullName(name, ov)
      /\ t = [kind |-> "function", ret |-> t.ret, args |-> t.args]
      /\ HasLetter(m, p.ret, ov, t.ret)
      /\ Len(t.args) = Len(p.params)
      /\ \A k \in 1 .. Len(p.params) : HasLetter(m, p.params[k], ov, t.args[k])
      /\ m.attrs[f.attr_set] = <<EnumAttr(NO_UNWIND)>>
            \o (IF p.attr = NONE THEN <<>> ELSE <<EnumAttr(p.attr)>>)
    BY <1>6 DEF IsPrototype
<1>9. HasType(m, [kind |-> "function", ret |-> t.ret, args |-> t.args], f.type)
    BY <1>7, <1>8 DEF IsFunctionType, HasType
<1> HIDE DEF t, p
<1>10. /\ TypeTree(m, f.type) = [kind |-> "function", ret |-> TypeTree(m, t.ret),
                                 args |-> TreesOf(m, t.args)]
       /\ t.args \in Seq(0 .. f.type - 1)
    BY <1>9, FunctionTree
<1>11. /\ p.params \in Seq(Letters)
       /\ MayLetter(ov, m, p.ret)
       /\ \A k \in 1 .. Len(p.params) : MayLetter(ov, m, p.params[k])
    BY LettersAskedFor DEF p
<1>12. TypeTree(m, t.ret) = TreeOf(p.ret, ov)
    BY <1>8, <1>11, LetterTree
<1>13. \A k \in 1 .. Len(p.params) :
          TypeTree(m, t.args[k]) = TreeOf(p.params[k], ov)
    BY <1>8, <1>11, LetterTree
<1>14. DOMAIN p.params = 1 .. Len(p.params) /\ DOMAIN t.args = 1 .. Len(p.params)
    BY <1>8, <1>10, <1>11
<1>15. TreesOf(m, t.args) = [k \in DOMAIN p.params |-> TreeOf(p.params[k], ov)]
    BY <1>13, <1>14, Zenon DEF TreesOf
<1> QED
    BY <1>5, <1>8, <1>10, <1>12, <1>15 DEF IsFunction, f, p

LEMMA RequestIsTrue ==
    ASSUME BuildInv, OneZero, NEW a \in asked
    PROVE  CASE a.req.call = "function" ->
                   IsFunction(mod, a.is, a.req.name, a.req.overload)
             [] a.req.call = "int" ->
                   IsConst(mod, a.is, IntType(a.req.of[1]), a.req.of[2])
             [] a.req.call = "float" ->
                   IsConst(mod, a.is, FloatType(a.req.of[1]), a.req.of[2])
             [] a.req.call = "res_type" -> IsResource(mod, a.is[2], a.req.of)
             [] a.req.call = "res_bind" -> IsBinding(mod, a.is, a.req.of)
<1> DEFINE req == a.req
<1>1. /\ IsSound(mod)
      /\ req \in Lookups /\ Sensible(req) /\ Knows(mod, req, a.is)
    BY DEF BuildInv
<1> HIDE DEF req
<1>2. CASE req.call = "function"
    <2>1. HasFunction(mod, req.name, req.overload, a.is)
        BY <1>1, <1>2 DEF Knows
    <2>2. IsAskedFor(req.name, req.overload)
        BY <1>1, <1>2, KindsOfRequests DEF IsAskedFor, Sensible
    <2> QED
        BY <1>1, <1>2, <2>1, <2>2, FunctionIsTrue DEF req
<1>3. CASE req.call = "int"
    BY <1>1, <1>3, IntIsConst DEF Knows, req
<1>4. CASE req.call = "float"
    <2>1. <<req.of[1], req.of[2]>> \in Floats
        BY <1>1, <1>4, KindsOfRequests
    <2>2. HasFloat(mod, req.of[1], req.of[2], a.is)
        BY <1>1, <1>4 DEF Knows
    <2> QED
        BY <1>1, <1>4, <2>1, <2>2, FloatIsConst DEF req
<1>5. CASE req.call = "res_type"
    <2>1. req.of.comp \in Scalars
        BY <1>1, <1>5, KindsOfRequests
    <2>2. HasResource(mod, req.of, a.is[2])
        BY <1>1, <1>5 DEF Knows
    <2> QED
        BY <1>1, <1>5, <2>1, <2>2, ResourceTree DEF req
<1>6. CASE req.call = "res_bind"
    BY <1>1, <1>6, BindingIsTrue DEF Knows, req
<1>7. req.call \in {"function", "int", "float", "res_type", "res_bind"}
    BY <1>1, KindsOfRequests
<1> QED
    BY <1>2, <1>3, <1>4, <1>5, <1>6, <1>7 DEF req

(* Every answer is what was asked for, also after later requests, unless   *)
(* both zeros of a width are asked for: their comparison calls them equal. *)
THEOREM Building_AnswersAreTrue ==
    ASSUME OneZero PROVE BuildSpec => []AnswersAreTrue
<1>1. BuildInv => AnswersAreTrue
    BY RequestIsTrue DEF AnswersAreTrue
<1> QED
    BY <1>1, Building_BuildInv, PTL
=============================================================================
