----------------------------- MODULE MCClassFiles ------------------------------
(***************************************************************************)
(* The classes TLC makes, writes and reads: one family for each part of a  *)
(* class file.  A name has two letters or more.                            *)
(***************************************************************************)
EXTENDS ClassGeneration

AA == <<65, 65>>
BB == <<66, 66>>
II == <<73, 73>>
EE == <<69, 69>>
In == <<65, 65, 36, 73>>
Deep == <<65, 65, 36, 73, 36, 68>>
Here == <<65, 65, 36, 49, 72>>
Anon == <<65, 65, 36, 49>>
ff == <<102, 102>>
mm == <<109, 109>>
ss == <<115, 115>>
MCClassInitializer == <<60, 99, 62>>
MCGenericOnes == {BB}
MCWorlds == {{II, EE}, {II, EE, BB}}
int == Primitive(73)
void == Primitive(86)
TT == Var(<<84, 84>>)
SS == Var(<<83, 83>>)
Own == Var(<<79, 80>>)

InType(outer, local, anonymous, simple, flags) ==
  [outer |-> outer, local |-> local, anonymous |-> anonymous, simple |-> simple, flags |-> flags]
MCNestedTypes ==
  (In :> InType(AA, FALSE, FALSE, <<73, 73>>, {PRIVATE, STATIC, STRICTFP}))
  @@ (Deep :> InType(In, FALSE, FALSE, <<68, 68>>, {PROTECTED}))
  @@ (Here :> InType(AA, TRUE, FALSE, <<72, 72>>, {FINAL}))
  @@ (Anon :> InType(AA, TRUE, TRUE, <<>>, {}))

Plain ==
  [target |-> 6, lines |-> TRUE, variables |-> FALSE, flags |-> {PUBLIC}, name |-> AA, super |-> ObjectName,
   super_arguments |-> <<>>, interfaces |-> <<>>, interface_arguments |-> <<>>, parameters |-> <<>>,
   deprecated |-> FALSE, enclosing |-> [class |-> <<>>, name |-> <<>>, type |-> <<>>], annotations |-> <<>>,
   fields |-> <<>>, methods |-> <<>>, nested |-> <<>>, source |-> ss, foreign |-> <<>>]
FieldNamed(flags, type) ==
  [flags |-> flags, name |-> ff, type |-> type, value |-> Gap, deprecated |-> FALSE]
MethodNamed(name, flags, events) ==
  [flags |-> flags, name |-> name, parameters |-> <<>>, formals |-> <<>>, formal_names |-> <<>>,
   formal_slots |-> <<>>, result |-> void, throws |-> <<>>, deprecated |-> FALSE, annotations |-> <<>>,
   locals |-> 1, stack |-> 1, events |-> events, constants |-> {}, caught |-> {}, variables |-> {},
   frames |-> <<>>]
Silent == MethodNamed(mm, {ABSTRACT, PUBLIC}, 0)

Integer1 == IntegerInfo(<<0, 0, 0, 1>>)
Double1 == DoubleInfo(<<63, 240, 0, 0, 0, 0, 0, 0>>)
Fields ==
  {[Plain EXCEPT !.fields = <<[FieldNamed({FINAL} \cup more, int) EXCEPT !.value = k, !.deprecated = old],
                              [FieldNamed(more, type) EXCEPT !.name = mm]>>,
                 !.parameters = <<Parameter(<<84, 84>>, <<>>)>>, !.target = target] :
     more \in {{PRIVATE, STATIC}, {SYNTHETIC, STATIC}, {PUBLIC}}, old \in BOOLEAN,
     k \in {Gap, Integer1, FloatInfo(<<0, 0, 0, 1>>), Double1, LongInfo(<<0, 0, 0, 0, 0, 0, 0, 1>>), <<8, ss>>},
     type \in {TT, Array(TT), Class(BB, <<>>), Array(int)}, target \in {1, 4, 5}}
Coded ==
  {[Plain EXCEPT !.methods = <<[MethodNamed(mm, {}, 3) EXCEPT !.constants = {k}, !.caught = {In}], Silent>>] :
     k \in {<<9, AA, ff, <<73>>>>, Double1}}
Named ==
  {[Plain EXCEPT !.variables = TRUE, !.lines = FALSE,
                 !.methods = <<[MethodNamed(mm, flags, 2) EXCEPT
                    !.formals = <<int, Array(TT)>>, !.formal_names = <<ff, ss>>, !.formal_slots = <<1, 2>>,
                    !.variables = {[name |-> AA, type |-> <<73>>, slot |-> 3]}]>>] :
     flags \in {{}, {STATIC}}}
Framed ==
  {[Plain EXCEPT !.target = 7,
                 !.methods = <<[MethodNamed(mm, {PUBLIC}, 1) EXCEPT !.frames = frames, !.constants = {<<8, ss>>}],
                               MethodNamed(MCClassInitializer, {STATIC}, 1)>>] :
     frames \in {<<>>, <<0, 1, 0>>}}
Thrown(set) == UNION {{<<x>>, <<x, y>>} : x, y \in set}
Throwing ==
  {[Plain EXCEPT !.methods = <<[MethodNamed(mm, flags, 0) EXCEPT !.throws = throws, !.deprecated = old],
                               MethodNamed(ff, more, 0)>>,
                 !.target = target, !.nested = nested] :
     flags \in {{NATIVE, PUBLIC}, {ABSTRACT, PROTECTED}, {NATIVE, SYNTHETIC}}, throws \in {<<>>, <<Deep>>, <<BB, In>>},
     old \in BOOLEAN, more \in {{SYNTHETIC}, {SYNTHETIC, BRIDGE}, {STATIC}}, target \in {4, 6}, nested \in {<<>>, <<In>>}}
Listed ==
  {[Plain EXCEPT !.fields = <<[FieldNamed({FINAL}, int) EXCEPT !.value = <<8, Deep>>]>>,
                 !.methods = <<[MethodNamed(mm, {}, 2) EXCEPT !.constants = {<<7, x>> : x \in {In, Deep, Here, Anon, BB}}]>>,
                 !.nested = nested, !.lines = FALSE] :
     nested \in {<<>>, <<In, Deep>>, <<Deep, In>>, <<In>>}}
OfNested ==
  {[Plain EXCEPT !.name = name, !.flags = NestedTypes[name].flags, !.super = super, !.interfaces = interfaces,
                 !.interface_arguments = [i \in DOMAIN interfaces |-> <<>>],
                 !.enclosing = [class |-> IF NestedTypes[name].local THEN AA ELSE <<>>, name |-> in, type |-> <<40, 41, 86>>],
                 !.deprecated = old] :
     name \in {In, Deep, Here, Anon}, super \in {ObjectName, BB, Deep}, in \in {<<>>, mm},
     interfaces \in {<<>>, <<II>>, <<EE, II>>}, old \in BOOLEAN}
\* Arguments as they can be written; those a class file keeps are the first three.
Kept == {Class(EE, <<>>), TT, Array(int)}
Lost == {Wildcard("any", Object), Wildcard("extends", Class(EE, <<>>)), Wildcard("super", TT), Class(BB, <<TT>>)}
\* Types that use only the type parameters there are.
Using(t) == CASE t.k = "var" -> {t.name}
              [] t.k \in {"array", "extends", "super"} -> IF t.of.k = "var" THEN {t.of.name} ELSE {}
              [] OTHER -> {}
Scoped(ps, types) ==
  UNION {Using(t) : t \in types} \cup UNION {UNION {Using(x) : x \in ToSet(t.arguments)} : t \in {t \in types : t.k = "class"}}
    \subseteq {ps[i].name : i \in DOMAIN ps}
Generic ==
  {[Plain EXCEPT !.parameters = x[1], !.super = BB, !.super_arguments = x[2],
                 !.interfaces = <<II, EE>>, !.interface_arguments = <<x[3], x[4]>>] :
     x \in {x \in {<<>>, <<Parameter(TT.name, <<>>)>>, <<Parameter(TT.name, <<BB, II>>), Parameter(SS.name, <<EE>>)>>}
              \X ({<<>>} \cup {<<t>> : t \in Kept \cup Lost})
              \X ({<<>>} \cup {<<t, u>> : t \in Kept \cup Lost, u \in {SS, TT}}) \X {<<>>, <<TT>>} :
             Scoped(x[1], ToSet(x[2]) \cup ToSet(x[3]) \cup ToSet(x[4]))}}
Results == {void, int, Own, TT, Array(TT), Class(EE, <<>>)} \cup {Class(BB, <<t>>) : t \in Kept \cup Lost \cup {Own}}
GenericMethods ==
  {[Plain EXCEPT !.parameters = <<Parameter(TT.name, <<>>)>>,
                 !.methods = <<[MethodNamed(mm, {ABSTRACT, PUBLIC}, 0) EXCEPT
                    !.parameters = x[1], !.formals = x[2], !.result = x[3]]>>] :
     x \in {x \in {<<>>, <<Parameter(Own.name, <<>>)>>, <<Parameter(SS.name, <<EE>>), Parameter(Own.name, <<BB, II>>)>>}
              \X {<<>>, <<int, Own>>, <<Array(Own), Class(BB, <<SS>>)>>, <<Class(BB, <<Own>>), TT>>} \X Results :
             Scoped(Append(x[1], Parameter(TT.name, <<>>)), {x[3]} \cup ToSet(x[2]))}}
Note(values) == [type |-> EE, pairs |-> [i \in DOMAIN values |-> <<<<110, 48 + i>>, values[i]>>]]
Bare == Note(<<>>)
SourceValues ==
  {<<115, Utf8(ss)>>, <<73, Integer1>>, <<74, LongInfo(<<0, 0, 0, 0, 0, 0, 0, 1>>)>>, <<90, Integer1>>, <<68, Double1>>,
   <<64, Note(<<<<73, Integer1>>>>)>>, <<91, <<<<115, Utf8(ff)>>, <<90, Integer1>>, <<73, Integer1>>>>>>, <<91, <<>>>>}
Notes == {<<>>, <<Bare>>} \cup {<<Note(<<v>>), Note(<<v, w>>)>> : v, w \in SourceValues}
Annotated ==
  {[Plain EXCEPT !.annotations = ns, !.target = target,
                 !.methods = <<[Silent EXCEPT !.annotations = more]>>] :
     ns \in Notes, target \in {4, 5}, more \in {<<>>, <<Note(<<<<115, Utf8(ss)>>>>)>>}}
ForeignNote == Annotation(Utf8(Text(Class(EE, <<>>))), <<>>)
ForeignOnes ==
  {[Plain EXCEPT !.methods = <<[Silent EXCEPT !.throws = <<BB>>]>>, !.fields = <<FieldNamed({}, Class(EE, <<>>))>>,
                 !.foreign = foreign] :
     foreign \in {<<AddParameterAnnotation(ParameterAnnotations("RuntimeInvisibleParameterAnnotations", 2), 1, ForeignNote),
                     AddAnnotation(Annotations("RuntimeInvisibleAnnotations"), ForeignNote)>>,
                   <<AnnotationDefault(Values(<<<<64, ForeignNote>>>>))>>}}
MCDeclarations ==
  UNION {Fields, Coded, Named, Framed, Throwing, Listed, OfNested, Generic, GenericMethods, Annotated, ForeignOnes}
MCCutShortOnes == {d \in Fields \cup Framed : d.target \in {1, 7}}
=============================================================================
