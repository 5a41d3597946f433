---------------------------- MODULE ClassGeneration ----------------------------
(* One class from its declaration to its class file and back: what ByteCode      *)
(* puts into the class, its constants, members and attributes                    *)
(* (src/src/codegen/bytecode.h, bytecode_init.cpp, bytecode_ops.cpp), the file    *)
(* that is written, and the type made of it when it is read.  The code of a      *)
(* method is whatever its statements give: operations, lines, handlers and       *)
(* variables in any order, and the jump that turns out to be needless.           *)
EXTENDS ClassLoading

CONSTANTS Declarations,   \* the classes compiled, each a record
          NestedTypes,    \* what is known of each nested type, by its name
          CutShortOnes,   \* the declarations whose file may be cut anywhere
          Worlds,         \* for each time of reading, the types that are interfaces then
          MaxU2           \* the largest number of constants, fields or methods

ASSUME MaxU2Assumption == MaxU2 \in Nat
VARIABLES decl, class, phase, method, budget, file, read, loaded
vars == <<decl, class, phase, method, budget, file, read, loaded>>

Target15 == 5
(* ---- constants, registered at their first use ---- *)
Register(c, k) == IF Contains(c.pool, k) THEN c ELSE [c EXCEPT !.pool = SetNext(@, k)]
RegisterUtf8(c, text) == Register(c, Utf8(text))
AttributeNamed(c, kind) == RegisterUtf8(c, <<AttributeName[kind]>>)
RegisterString(c, text) == Register(RegisterUtf8(c, text), StringInfo(text))
RegisterNameAndType(c, name, type) ==
  Register(RegisterUtf8(RegisterUtf8(c, name), type), NameAndType(name, type))
AddToClass(c, a) == AddAttribute(c, a)
(* A nested type is listed in InnerClasses when its constant is made, after the   *)
(* type it is in.                                                                *)
WithInnerClasses(c) ==
  IF Has(c.attributes, "InnerClasses") THEN c
  ELSE AddToClass(AttributeNamed(c, "InnerClasses"), Table("InnerClasses"))
ListInner(c, name, n) ==
  [c EXCEPT !.attributes = [i \in DOMAIN @ |->
     IF @[i].kind # "InnerClasses" THEN @[i]
     ELSE AddInnerClass(@[i], ClassInfo(name), IF n.local THEN Gap ELSE ClassInfo(n.outer),
                        IF n.anonymous THEN Gap ELSE Utf8(n.simple), n.flags \ {STRICTFP})]]
NameInner(c, n) == IF n.anonymous THEN c ELSE RegisterUtf8(c, n.simple)
RECURSIVE RegisterClass(_, _)
InnerFirst(c, name, n) ==
  LET listed == ListInner(NameInner(c, n), name, n)
  IN IF n.local THEN listed ELSE RegisterClass(listed, n.outer)
RegisterNested(c, name, n) ==
  ListInner(NameInner(IF n.local THEN c ELSE RegisterClass(c, n.outer), n), name, n)
RegisterClass(c, name) ==
  LET Known(k) == IF name \in DOMAIN NestedTypes THEN RegisterNested(WithInnerClasses(k), name, NestedTypes[name])
                  ELSE k
  IN IF Contains(c.pool, ClassInfo(name)) THEN c ELSE Known(Register(RegisterUtf8(c, name), ClassInfo(name)))
RegisterMember(c, tag, name, member, type) ==
  Register(RegisterClass(RegisterNameAndType(c, member, type), name), Member(tag, name, member, type))
RegisterConstant(c, k) ==
  CASE k[1] = 8 -> RegisterString(c, k[2])
    [] k[1] = 7 -> RegisterClass(c, k[2])
    [] k[1] \in 9 .. 11 -> RegisterMember(c, k[1], k[2], k[3], k[4])
    [] OTHER -> Register(c, k)
RegisterAll(c, ks) == FoldLeft(RegisterConstant, c, ks)

(* ---- annotations ---- *)
(* An annotation of the source has a type and pairs of a name and a value; a      *)
(* value is a tag with a constant, with the name of a class, with an annotation,  *)
(* or with values, or it is of another form and is left out.                     *)
Descriptor1(name) == Utf8(<<L>> \o name \o <<SEMICOLON>>)
LiteralTags == {115, 73, 74, 90, 67}
MadeLiterals(v) == IF v[1] \in LiteralTags THEN <<v>> ELSE <<>>
MadeClassLiteral(v) == IF v[1] = 99 THEN <<<<99, Descriptor1(v[2])>>>> ELSE <<>>
MadeNested(v) == IF v[1] = 64 THEN <<Nested(Annotation(Descriptor1(v[2].type), <<>>))>> ELSE <<>>
MadeArray(v) ==
  IF v[1] = 91 THEN <<Values(SelectSeq(v[2], LAMBDA x : x[1] \in {115, 73}))>> ELSE <<>>
MadeEnum(v) == IF v[1] = 101 THEN <<EnumValue(Descriptor1(v[2]), Utf8(v[3]))>> ELSE <<>>
Made(v) == MadeLiterals(v) \o MadeClassLiteral(v) \o MadeNested(v) \o MadeArray(v) \o MadeEnum(v)
MadeAnnotation(n) ==
  Annotation(Descriptor1(n.type),
             FlattenSeq([i \in DOMAIN n.pairs |->
               [j \in DOMAIN Made(n.pairs[i][2]) |-> <<Utf8(n.pairs[i][1]), Made(n.pairs[i][2])[j]>>]]))
(* The constants a value is made of, and an annotation. *)
ConstantsOfValue(v) ==
  CASE v[1] = 101 -> <<v[2], v[3]>>
    [] v[1] = 64 -> <<v[2].type>>
    [] v[1] = 91 -> [i \in 1 .. Len(v[2]) |-> v[2][i][2]]
    [] OTHER -> <<v[2]>>
ConstantsOf(n) ==
  <<n.type>> \o FlattenSeq([i \in 1 .. Len(n.components) |->
    <<n.components[i][1]>> \o ConstantsOfValue(n.components[i][2])])
(* A class or a member, being given an attribute whose name is registered. *)
Give(x, a) == [class |-> AttributeNamed(x.class, a.kind), info |-> AddAttribute(x.info, a)]
GiveIf(given, x, a) == IF given THEN Give(x, a) ELSE x
GiveSignature(given, x, text) ==
  IF given THEN [Give(x, Signature(text)) EXCEPT !.class = RegisterUtf8(@, text)] ELSE x
(* The attribute's own name comes after the type of the first annotation. *)
GiveMade(x, ns) ==
  [class |-> FoldLeft(LAMBDA c, n : RegisterAll(c, ConstantsOf(n)),
                      AttributeNamed(Register(x.class, ns[1].type), "RuntimeVisibleAnnotations"), ns),
   info |-> AddAttribute(x.info, FoldLeft(AddAnnotation, Annotations("RuntimeVisibleAnnotations"), ns))]
GiveAnnotations(x, annotations) ==
  IF annotations = <<>> \/ decl.target < Target15 THEN x
  ELSE GiveMade(x, [i \in DOMAIN annotations |-> MadeAnnotation(annotations[i])])
IsSynthetic(flags) == SYNTHETIC \in flags /\ decl.target < Target15

(* ---- the class ---- *)
(* The flags of the class file, which has no place for those of a nested type. *)
ClassFlags(flags) ==
  ((IF PROTECTED \in flags THEN {PUBLIC} ELSE {}) \cup (IF INTERFACE \in flags THEN {} ELSE {SUPER}))
  \cup (flags \ {PROTECTED, PRIVATE, STATIC, STRICTFP})
Version(target) == IF target = 1 THEN <<3, 45>> ELSE <<0, 44 + target>>
(* ByteCode::ByteCode *)
NewClass(d) ==
  LET empty == [minor |-> Version(d.target)[1], major |-> Version(d.target)[2], pool |-> <<>>,
                flags |-> ClassFlags(d.flags), this |-> ClassInfo(d.name),
                super |-> IF d.super = <<>> THEN Gap ELSE ClassInfo(d.super),
                interfaces |-> [i \in 1 .. Len(d.interfaces) |-> ClassInfo(d.interfaces[i])],
                fields |-> <<>>, methods |-> <<>>, attributes |-> <<>>]
  IN FoldLeft(RegisterClass, empty,
              <<d.name>> \o (IF d.super = <<>> THEN <<>> ELSE <<d.super>>) \o d.interfaces)
(* ByteCode::DeclareField *)
NewInfo(c, flags, name, type) ==
  [class |-> RegisterUtf8(RegisterUtf8(c, name), type), info |-> Info(flags, name, type)]
GiveMarks(x, flags, deprecated) == GiveIf(deprecated, GiveIf(IsSynthetic(flags), x, Synthetic), Deprecated)
GiveValue(x, k) ==
  IF k = Gap THEN x ELSE Give([x EXCEPT !.class = RegisterConstant(@, k)], ConstantValue(k))
IsParameter(t) == t.k = "var" /\ \E i \in DOMAIN decl.parameters : decl.parameters[i].name = t.name
FieldOf(c, f) ==
  GiveSignature(decl.target >= Target15 /\ IsParameter(f.type),
    GiveMarks(GiveValue(NewInfo(c, f.flags, f.name, Text(Erasure(f.type))), f.value), f.flags, f.deprecated),
    Text(f.type))
DeclareField ==
  /\ phase = "fields"
  /\ LET Add(f) == [f.class EXCEPT !.fields = Append(@, f.info)]
     IN IF Len(class.fields) < Len(decl.fields)
        THEN class' = Add(FieldOf(class, decl.fields[Len(class.fields) + 1])) /\ phase' = phase
        ELSE phase' = "methods" /\ UNCHANGED class
  /\ UNCHANGED <<decl, method, budget, file, read, loaded>>

(* ---- a method ---- *)
Abstract(m) == {ABSTRACT, NATIVE} \cap m.flags # {}
Mentions(t, names) ==
  LET Here(x) == x.k = "var" /\ Contains(names, x.name)
  IN \/ Here(t)
     \/ t.k = "class" /\ \E i \in DOMAIN t.arguments : Here(t.arguments[i])
NamesOf(parameters) == [i \in DOMAIN parameters |-> parameters[i].name]
(* Only the formal parameters that use a type parameter of the method keep it. *)
GenericText(m) ==
  MethodSignature(m.parameters,
    [i \in DOMAIN m.formals |->
       IF Mentions(m.formals[i], NamesOf(m.parameters)) THEN m.formals[i] ELSE Erasure(m.formals[i])],
    m.result)
IsGeneric(m) ==
  \/ m.parameters # <<>> \/ m.result.k = "var"
  \/ m.result.k = "class" /\ m.result.arguments # <<>>
(* ByteCode::BeginMethod *)
GiveThrows(x, throws) ==
  IF throws = <<>> THEN x
  ELSE [class |-> FoldLeft(RegisterClass, AttributeNamed(x.class, "Exceptions"), throws),
        info |-> AddAttribute(x.info, FoldLeft(AddExceptionIndex, Table("Exceptions"), throws))]
MethodOf(c, m) ==
  GiveAnnotations(
    GiveSignature(decl.target >= Target15 /\ IsGeneric(m),
      GiveThrows(GiveMarks(NewInfo(c, m.flags, m.name, Descriptor(m.formals, m.result)), m.flags, m.deprecated),
                 m.throws),
      GenericText(m)),
    m.annotations)
TablesNamed(c) == AttributeNamed(AttributeNamed(c, "Code"), "LineNumberTable")
MethodAt == decl.methods[Len(class.methods) + 1]
NoMethod == [info |-> Info({}, <<>>, <<>>), code |-> Code(0), lines |-> Table("LineNumberTable"),
             locals |-> Table("LocalVariableTable"), jump |-> FALSE]
BeginMethod ==
  /\ phase = "methods"
  /\ LET Begun(x) ==
           /\ class' = IF Abstract(MethodAt) THEN x.class
                       ELSE IF decl.variables THEN AttributeNamed(TablesNamed(x.class), "LocalVariableTable")
                       ELSE TablesNamed(x.class)
           /\ method' = [NoMethod EXCEPT !.info = x.info, !.code = Code(MethodAt.locals)]
           /\ budget' = IF Abstract(MethodAt) THEN 0 ELSE MethodAt.events
           /\ phase' = "body"
     IN IF Len(class.methods) < Len(decl.methods) THEN Begun(MethodOf(class, MethodAt))
        ELSE phase' = "finish" /\ UNCHANGED <<class, method, budget>>
  /\ UNCHANGED <<decl, file, read, loaded>>
Emitting == phase = "body" /\ budget > 0 /\ budget' = budget - 1
Keeping == UNCHANGED <<decl, phase, file, read, loaded>>
(* PutOp, with the index of what it is about. *)
PutOp ==
  /\ Emitting /\ Keeping
  /\ \E k \in MethodAt.constants \cup {Gap} :
       LET c == IF k = Gap THEN class ELSE RegisterConstant(class, k)
           operand == IF k = Gap THEN <<>> ELSE U2(Index(c.pool, k))
       IN /\ class' = c
          /\ method' = [method EXCEPT !.code = FoldLeft(AddCode, @, <<87>> \o operand), !.jump = FALSE]
EmitBranch ==
  /\ Emitting /\ Keeping /\ UNCHANGED class
  /\ method' = [method EXCEPT !.code = FoldLeft(AddCode, @, <<167, 0, 0>>), !.jump = TRUE]
(* DefineLabel takes a jump to the next instruction away. *)
DropBranch ==
  /\ Emitting /\ Keeping /\ UNCHANGED class
  /\ method.jump /\ ~ decl.variables
  /\ method' = [method EXCEPT !.code = DeleteCode(@, 3), !.jump = FALSE,
                              !.lines = SetMax(@, Len(method.code.code) - 3)]
PutLine ==
  /\ Emitting /\ Keeping /\ UNCHANGED class
  /\ \E line \in 1 .. 2 :
       method' = [method EXCEPT !.lines = AddLineNumber(@, Len(method.code.code), line)]
PutHandler ==
  /\ Emitting /\ Keeping
  /\ \E start, end \in 0 .. Len(method.code.code), type \in MethodAt.caught \cup {<<>>} :
       /\ start <= end
       /\ class' = IF type = <<>> THEN class ELSE RegisterClass(class, type)
       /\ method' = [method EXCEPT !.code = AddException(@, start, end, Len(@.code),
                                              IF type = <<>> THEN Gap ELSE ClassInfo(type))]
PutVariable ==
  /\ Emitting /\ Keeping /\ decl.variables
  /\ \E start \in 0 .. Len(method.code.code), v \in MethodAt.variables :
       /\ class' = RegisterUtf8(RegisterUtf8(class, v.name), v.type)
       /\ method' = [method EXCEPT !.locals =
                       AddLocalVariable(@, start, Len(method.code.code), v.name, v.type, v.slot)]
(* ByteCode::EndMethod *)
This == <<116, 104>>
ThisType == <<L>> \o decl.name \o <<SEMICOLON>>
OwnVariables(m) ==
  (IF STATIC \in m.flags THEN <<>> ELSE <<[name |-> This, type |-> ThisType, slot |-> 0]>>)
  \o [i \in DOMAIN m.formals |-> [name |-> m.formal_names[i], type |-> Text(Erasure(m.formals[i])),
                                  slot |-> m.formal_slots[i]]]
OwnListed(c, own) == FoldLeft(LAMBDA x, v : RegisterUtf8(RegisterUtf8(x, v.name), v.type), c, own)
OwnAdded(a, own) ==
  FoldLeft(LAMBDA x, v : AddLocalVariable(x, 0, Len(method.code.code), v.name, v.type, v.slot), a, own)
AddTable(given, code, a) == IF given /\ a.rows # <<>> THEN AddToCode(code, a) ELSE code
AddFrames(code, frames) ==
  IF decl.target >= 7 /\ frames # <<>>
  THEN AddToCode(code, [kind |-> "StackMapTable", length |-> Len(frames), bytes |-> frames])
  ELSE code
WholeCode(m) ==
  AddFrames(AddTable(decl.variables, AddTable(decl.lines, method.code, method.lines),
                     OwnAdded(method.locals, OwnVariables(m))), m.frames)
EndMethod ==
  /\ phase = "body" /\ budget = 0
  /\ LET m == MethodAt
         Last1(c) == IF decl.target >= 7 THEN AttributeNamed(c, "StackMapTable") ELSE c
     IN class' = IF Abstract(m) THEN [class EXCEPT !.methods = Append(@, method.info)]
                 ELSE [Last1(IF decl.variables THEN OwnListed(class, OwnVariables(m)) ELSE class) EXCEPT
                         !.methods = Append(@, AddAttribute(method.info, [WholeCode(m) EXCEPT !.stack = m.stack]))]
  /\ phase' = "methods" /\ method' = NoMethod
  /\ UNCHANGED <<decl, budget, file, read, loaded>>

(* ---- the end of the class, and its file ---- *)
EnclosingConstants(e) == IF e.name = <<>> THEN Gap ELSE NameAndType(e.name, e.type)
(* ByteCode::FinishCode and the limits of ByteCode::GenerateCode. *)
AddNamed(c, a) == AddToClass(AttributeNamed(c, a.kind), a)
AddIf(given, c, a) == IF given THEN AddNamed(c, a) ELSE c
AddSource(c) == AddToClass(RegisterUtf8(AttributeNamed(c, "SourceFile"), decl.source), SourceFile(decl.source))
AddMarks(c) ==
  AddIf(IsSynthetic(decl.flags), AddIf(decl.deprecated, c, Deprecated), Synthetic)
EnclosingConstant(c, e) == IF e.name = <<>> THEN c ELSE RegisterNameAndType(c, e.name, e.type)
AddEnclosing(c, e) ==
  IF e.class = <<>> THEN c
  ELSE AddToClass(EnclosingConstant(RegisterClass(AttributeNamed(c, "EnclosingMethod"), e.class), e),
                  EnclosingMethod(e.class, EnclosingConstants(e)))
SuperTypes == [i \in DOMAIN decl.interfaces |-> Class(decl.interfaces[i], decl.interface_arguments[i])]
GenericClass ==
  \/ decl.parameters # <<>> \/ decl.super_arguments # <<>>
  \/ \E i \in DOMAIN decl.interfaces : decl.interface_arguments[i] # <<>>
AddSignature(c, text) ==
  IF decl.target >= Target15 /\ GenericClass
  THEN AddToClass(RegisterUtf8(AttributeNamed(c, "Signature"), text), Signature(text))
  ELSE c
AddAnnotations(c) ==
  LET Both(x) == [x.class EXCEPT !.attributes = x.info.attributes]
  IN Both(GiveAnnotations([class |-> c, info |-> c], decl.annotations))
Finished ==
  AddAnnotations(
    AddSignature(AddEnclosing(AddMarks(AddSource(class)), decl.enclosing),
                 ClassSignature(decl.parameters, Class(decl.super, decl.super_arguments), SuperTypes)))
Oversized(c) == Max({Len(c.pool) + 1, Len(c.fields), Len(c.methods), Len(c.interfaces)}) > MaxU2
FinishCode ==
  /\ phase = "finish"
  /\ class' = FoldLeft(RegisterClass, Finished, Reverse(decl.nested))
  /\ phase' = IF Oversized(class') THEN "overflow" ELSE "write"
  /\ UNCHANGED <<decl, method, budget, file, read, loaded>>
(* What other compilers give a method, and this one only reads. *)
AddForeign ==
  /\ phase = "write" /\ decl.foreign # <<>> /\ class.methods # <<>>
  /\ LET last == [class |-> class, info |-> Last(class.methods)]
         given == FoldLeft(Give, last, decl.foreign)
     IN class' = [given.class EXCEPT !.methods[Len(class.methods)] = given.info]
  /\ decl' = [decl EXCEPT !.foreign = <<>>]
  /\ UNCHANGED <<phase, method, budget, file, read, loaded>>
(* ClassFile::Write: the blocks of the file that reach the disk are not counted. *)
Write ==
  /\ phase = "write" /\ decl.foreign = <<>>
  /\ LET bytes == PutClass(class)
     IN \E n \in IF decl \in CutShortOnes THEN 0 .. Len(bytes) ELSE {Len(bytes)} :
          file' = SubSeq(bytes, 1, n)
  /\ phase' = "written"
  /\ UNCHANGED <<decl, class, method, budget, read, loaded>>
(* ClassFile::ClassFile, on what there is of the file. *)
Read == phase = "written" /\ read' = GetClass(file) /\ phase' = "read"
        /\ UNCHANGED <<decl, class, method, budget, file, loaded>>

BadType == [bad |-> TRUE]
(* A file that is no class file, or the one of another class, gives a bad type. *)
Load ==
  /\ phase = "read"
  /\ \E interfaces \in Worlds :
       loaded' = IF ~ read.valid \/ read.class.this # ClassInfo(decl.name) THEN BadType
               ELSE LoadedClass(read.class, interfaces)
  /\ phase' = "loaded"
  /\ UNCHANGED <<decl, class, method, budget, file, read>>
Init ==
  /\ decl \in Declarations
  /\ class = NewClass(decl) /\ method = NoMethod /\ budget = 0
  /\ phase = "fields" /\ file = <<>> /\ read = <<>> /\ loaded = <<>>
Next ==
  \/ DeclareField \/ BeginMethod \/ PutOp \/ EmitBranch \/ DropBranch \/ PutLine
  \/ PutHandler \/ PutVariable \/ EndMethod \/ FinishCode \/ AddForeign \/ Write \/ Read \/ Load
Spec == Init /\ [][Next]_vars
(* ---- properties ---- *)
Reversed(v) ==
  LET RECURSIVE Of(_)
      Of(x) == CASE x[1] = 64 -> Nested([x[2] EXCEPT !.components =
                       Reverse([i \in DOMAIN @ |-> <<@[i][1], Of(@[i][2])>>])])
                 [] x[1] = 91 -> Values([i \in DOMAIN x[2] |-> Of(x[2][i])])
                 [] OTHER -> x
  IN Of(v)
ReversedAll(ns) == [i \in DOMAIN ns |-> Reversed(Nested(ns[i]))[2]]
(* An attribute as whoever reads it ought to see it. *)
SeenAttribute(a) ==
  CASE a.kind \in AnnotationKinds -> [a EXCEPT !.annotations = ReversedAll(@)]
    [] a.kind \in ParameterKinds ->
         [a EXCEPT !.parameters = [i \in DOMAIN @ |-> ReversedAll(@[i])]]
    [] a.kind = "AnnotationDefault" -> [a EXCEPT !.value = Reversed(@)]
    [] a.kind = "StackMapTable" -> [a EXCEPT !.kind = "Generic"]
    [] OTHER -> a
SeenAll(as) == [i \in DOMAIN as |->
  IF as[i].kind = "Code"
  THEN [x \in DOMAIN as[i] \ {"code"} |->
          IF x = "attributes" THEN [j \in DOMAIN as[i][x] |-> SeenAttribute(as[i][x][j])] ELSE as[i][x]]
  ELSE SeenAttribute(as[i])]
SeenInfo(i) == [flags |-> WithSynthetic(i.flags, i.attributes), name |-> Utf8(i.name), type |-> Utf8(i.type),
                attributes |-> SeenAll(i.attributes)]
Seen(c) ==
  [x \in DOMAIN c \ {"pool"} |->
     CASE x = "flags" -> WithSynthetic(c.flags, c.attributes)
       [] x \in {"fields", "methods"} -> [i \in DOMAIN c[x] |-> SeenInfo(c[x][i])]
       [] x = "attributes" -> SeenAll(c.attributes)
       [] OTHER -> c[x]]
Whole == file = PutClass(class)
HasBeenRead == phase \in {"read", "loaded"}
(* A class file that was written whole is read to its end, nothing is wrong with  *)
(* it, and what is read is what was written: each length summed up while its part  *)
(* was made is the length of the bytes it has in the end.  A file of which only a  *)
(* part reached the disk is not taken for a class, wherever it was cut.            *)
WholeFilesAreRead ==
  HasBeenRead =>
    IF Whole THEN read.valid /\ read.at = Len(file) /\ read.class = Seen(class) ELSE ~ read.valid

(* Every nested type the file refers to is in InnerClasses, once, after its own    *)
(* enclosing type.                                                                *)
NestedTypesAreListed ==
  LET rows == Rows(class.attributes, "InnerClasses")
      Places(name) == {i \in DOMAIN rows : rows[i][1] = ClassInfo(name)}
  IN \A name \in DOMAIN NestedTypes :
       Contains(class.pool, ClassInfo(name)) =>
         /\ Cardinality(Places(name)) = 1
         /\ LET outer == NestedTypes[name].outer
            IN outer \in DOMAIN NestedTypes /\ ~ NestedTypes[name].local =>
                 \E i \in Places(outer), j \in Places(name) : i < j
(* What is promised of the type read: nothing is said of a generic argument that  *)
(* has arguments, a wildcard or a dimension of its own.                           *)
Simple(t) == t.k = "var" \/ (t.k = "class" /\ t.arguments = <<>>)
SameArguments(declared, read1) == (\A i \in DOMAIN declared : Simple(declared[i])) => read1 = declared
Visible(flags) == SYNTHETIC \notin flags
FieldIsThere(f) ==
  \E g \in ToSet(loaded.fields) :
    /\ g.name = f.name /\ g.flags = f.flags /\ g.type = Text(Erasure(f.type))
    /\ g.deprecated = f.deprecated /\ g.value = f.value
KnowsItsTypes(g, m) ==
  LET own == NamesOf(m.parameters)
      IsOwn(t) == t.k = "var" /\ Contains(own, t.name)
      Result1 == CASE IsOwn(m.result) -> <<"own", Place(own, m.result.name)>>
                   [] m.result.k = "var" -> <<"class", Place(NamesOf(decl.parameters), m.result.name)>>
                   [] OTHER -> g.result
  IN /\ g.parameters = own /\ g.result = Result1
     /\ \A i \in DOMAIN m.formals : IsOwn(m.formals[i]) => g.formals[i] = Place(own, m.formals[i].name)
MethodIsThere(m) ==
  \E g \in ToSet(loaded.methods) :
    /\ g.name = m.name /\ g.flags = m.flags /\ g.type = Descriptor(m.formals, m.result)
    /\ g.deprecated = m.deprecated /\ g.throws = Reverse(m.throws)
    /\ decl.target >= Target15 /\ IsGeneric(m) => KnowsItsTypes(g.generic, m)
OwnFlags ==
  IF decl.name \in DOMAIN NestedTypes THEN NestedTypes[decl.name].flags \ {STRICTFP} ELSE decl.flags \ {STRICTFP}
(* The type made of a class file is the one its source declared: flags, members,   *)
(* supertypes, exceptions and type parameters, whatever order they are read in.   *)
LoadedAsDeclared ==
  phase = "loaded" /\ Whole /\ ~ loaded.bad =>
    /\ loaded.flags = OwnFlags /\ loaded.deprecated = decl.deprecated
    /\ \A f \in ToSet(decl.fields) : Visible(f.flags) => FieldIsThere(f)
    /\ \A m \in ToSet(decl.methods) :
         Visible(m.flags) /\ m.name # ClassInitializer => MethodIsThere(m)
    /\ Len(loaded.interfaces) = Len(decl.interfaces)
    /\ decl.target >= Target15 =>
         /\ loaded.parameters = NamesOf(decl.parameters)
         /\ SameArguments(decl.super_arguments, loaded.super[2])
         /\ \A i \in DOMAIN decl.interfaces : \E j \in DOMAIN loaded.interfaces :
              /\ loaded.interfaces[j][1] = decl.interfaces[i]
              /\ SameArguments(decl.interface_arguments[i], loaded.interfaces[j][2])
================================================================================
