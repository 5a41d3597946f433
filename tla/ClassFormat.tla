----------------------------- MODULE ClassFormat ----------------------------
(* What is kept of a class file while it is made, and the bytes it becomes      *)
(* (src/src/codegen/class.h).  A constant is a tuple that begins with its tag   *)
(* and names what it refers to, <<7, name>> for a class: its index is its place *)
(* in the pool.  An attribute has the length its class has summed up so far,    *)
(* which is what is written in front of it, whatever it holds by then.          *)
EXTENDS Integers, Sequences, SequencesExt, FiniteSetsExt, Folds

U2(n) == <<(n \div 256) % 256, n % 256>>
U4(n) == U2(n \div 65536) \o U2(n % 65536)
(* The number of a set of flags, each flag being its bit. *)
Word(flags) == SumSet(flags)

PUBLIC == 1
PRIVATE == 2
PROTECTED == 4
STATIC == 8
FINAL == 16
SUPER == 32
NATIVE == 256
INTERFACE == 512
ABSTRACT == 1024
STRICTFP == 2048
SYNTHETIC == 4096
BRIDGE == 64
FlagBits == {1, 2, 4, 8, 16, 32, 64, 128, 256, 512, 1024, 2048, 4096, 8192, 16384}

(* ---- the constant pool ---- *)
Utf8(bytes) == <<1, bytes>>
IntegerInfo(bytes) == <<3, bytes>>
FloatInfo(bytes) == <<4, bytes>>
LongInfo(bytes) == <<5, bytes>>
DoubleInfo(bytes) == <<6, bytes>>
ClassInfo(name) == <<7, name>>
StringInfo(text) == <<8, text>>
Member(tag, class, name, type) == <<tag, class, name, type>>
NameAndType(name, type) == <<12, name, type>>
(* The entry after a large constant, and the constant no index refers to. *)
Gap == <<0>>
Large(k) == k[1] \in {5, 6}
(* ConstantPool::SetNext *)
SetNext(pool, k) == pool \o IF Large(k) THEN <<k, Gap>> ELSE <<k>>
Index(pool, k) == IF k = Gap THEN 0 ELSE CHOOSE i \in 1 .. Len(pool) : pool[i] = k
PutConstant(pool, k) ==
  CASE k = Gap -> <<>>
    [] k[1] = 1 -> <<1>> \o U2(Len(k[2])) \o k[2]
    [] k[1] \in 3 .. 6 -> <<k[1]>> \o k[2]
    [] k[1] \in {7, 8} -> <<k[1]>> \o U2(Index(pool, Utf8(k[2])))
    [] k[1] = 12 -> <<12>> \o U2(Index(pool, Utf8(k[2]))) \o U2(Index(pool, Utf8(k[3])))
    [] OTHER -> <<k[1]>> \o U2(Index(pool, ClassInfo(k[2])))
                         \o U2(Index(pool, NameAndType(k[3], k[4])))

(* ---- attributes that are a row, or a table of rows, of two-byte items ---- *)
(* An item is a constant, by its index, or a number <<-1, n>>. *)
Num(n) == <<-1, n>>
Item(pool, x) == U2(IF x[1] = -1 THEN x[2] ELSE Index(pool, x))
Row(kind, length, items) == [kind |-> kind, length |-> length, rows |-> <<items>>]
Table(kind) == [kind |-> kind, length |-> 2, rows |-> <<>>]
WithRow(a, size, row) == [a EXCEPT !.length = @ + size, !.rows = Append(@, row)]
Tables ==
  {"Exceptions", "InnerClasses", "LineNumberTable", "LocalVariableTable", "LocalVariableTypeTable"}
ConstantValue(k) == Row("ConstantValue", 2, <<k>>)
SourceFile(name) == Row("SourceFile", 2, <<Utf8(name)>>)
Signature(text) == Row("Signature", 2, <<Utf8(text)>>)
Synthetic == Row("Synthetic", 0, <<>>)
Deprecated == Row("Deprecated", 0, <<>>)
EnclosingMethod(class, k) == Row("EnclosingMethod", 4, <<ClassInfo(class), k>>)
AddExceptionIndex(a, class) == WithRow(a, 2, <<ClassInfo(class)>>)
AddInnerClass(a, inner, outer, name, flags) == WithRow(a, 8, <<inner, outer, name, Num(Word(flags))>>)
(* A line replaces the last one at the same place, if that is not the first. *)
AddLineNumber(a, pc, line) ==
  IF Len(a.rows) > 1 /\ Last(a.rows)[1] = Num(pc)
  THEN [a EXCEPT !.rows = Append(Front(@), <<Num(pc), Num(line)>>)]
  ELSE WithRow(a, 4, <<Num(pc), Num(line)>>)
(* Lines that began in code that has been cut away, but for the first. *)
SetMax(a, pc) ==
  [a EXCEPT !.rows = [i \in DOMAIN @ |->
     IF i > 1 /\ \A j \in i .. Len(a.rows) : a.rows[j][1][2] > pc
     THEN <<Num(pc), @[i][2]>> ELSE @[i]]]
AddLocalVariable(a, start, end, name, type, slot) ==
  IF end > start
  THEN WithRow(a, 10, <<Num(start), Num(end - start), Utf8(name), Utf8(type), Num(slot)>>)
  ELSE a

(* ---- annotations ---- *)
(* A component value is a constant <<tag, constant>>, or an enumeration's, an   *)
(* annotation's or an array's.                                                  *)
EnumValue(type, name) == <<101, type, name>>
Nested(annotation) == <<64, annotation>>
Values(values) == <<91, values>>
Annotation(type, components) == [type |-> type, components |-> components]
RECURSIVE ValueLength(_), AnnotationLength(_)
ValueLength(v) ==
  CASE v[1] = 101 -> 5
    [] v[1] = 64 -> 1 + AnnotationLength(v[2])
    [] v[1] = 91 -> 3 + MapThenSumSet(LAMBDA i : ValueLength(v[2][i]), DOMAIN v[2])
    [] OTHER -> 3
AnnotationLength(n) == 
  4 + MapThenSumSet(LAMBDA i : 2 + ValueLength(n.components[i][2]), DOMAIN n.components)
RECURSIVE PutValue(_, _), PutAnnotation(_, _)
PutValue(pool, v) ==
  <<v[1]>> \o
  CASE v[1] = 101 -> Item(pool, v[2]) \o Item(pool, v[3])
    [] v[1] = 64 -> PutAnnotation(pool, v[2])
    [] v[1] = 91 -> U2(Len(v[2])) \o FlattenSeq([i \in 1 .. Len(v[2]) |-> PutValue(pool, v[2][i])])
    [] OTHER -> Item(pool, v[2])
(* The components are written from the last to the first. *)
PutAnnotation(pool, n) ==
  LET last == Reverse(n.components)
  IN Item(pool, n.type) \o U2(Len(last)) \o
     FlattenSeq([i \in 1 .. Len(last) |-> Item(pool, last[i][1]) \o PutValue(pool, last[i][2])])
AnnotationKinds == {"RuntimeVisibleAnnotations", "RuntimeInvisibleAnnotations"}
ParameterKinds ==
  {"RuntimeVisibleParameterAnnotations", "RuntimeInvisibleParameterAnnotations"}
Annotations(kind) == [kind |-> kind, length |-> 2, annotations |-> <<>>]
ParameterAnnotations(kind, n) ==
  [kind |-> kind, length |-> 1 + 2 * n, parameters |-> [i \in 1 .. n |-> <<>>]]
AddParameterAnnotation(a, i, n) ==
  [a EXCEPT !.length = @ + AnnotationLength(n), !.parameters[i] = Append(@, n)]
AnnotationDefault(value) ==
  [kind |-> "AnnotationDefault", length |-> ValueLength(value), value |-> value]
AddAnnotation(a, n) ==
  [a EXCEPT !.length = @ + AnnotationLength(n), !.annotations = Append(@, n)]

(* ---- the code of a method ---- *)
Code(locals) == [kind |-> "Code", length |-> 12, stack |-> 0, locals |-> locals,
                 code |-> <<>>, rows |-> <<>>, attributes |-> <<>>]
AddCode(a, byte) == [a EXCEPT !.code = Append(@, byte), !.length = @ + 1]
DeleteCode(a, count) ==
  [a EXCEPT !.code = SubSeq(@, 1, Len(@) - count), !.length = @ - count]
ResetCode(a, pc, byte) == [a EXCEPT !.code[pc + 1] = byte]
(* An empty range is no range, and one that ends where the last begins joins it. *)
JoinedTwice(a, start, end, handler, type) ==
  IF start = end THEN a
  ELSE IF a.rows # <<>> /\ Last(a.rows)[1] = Num(end)
                        /\ SubSeq(Last(a.rows), 3, 4) = <<Num(handler), type>>
  THEN [a EXCEPT !.rows[Len(a.rows)][1] = Num(start), !.length = @ + 8]
  ELSE WithRow(a, 8, <<Num(start), Num(end), Num(handler), type>>)
AddException(a, start, end, handler, type) ==
  IF start = end THEN a
  ELSE IF a.rows # <<>> /\ Last(a.rows)[1] = Num(end)
                        /\ SubSeq(Last(a.rows), 3, 4) = <<Num(handler), type>>
  THEN [a EXCEPT !.rows[Len(a.rows)][1] = Num(start)]
  ELSE WithRow(a, 8, <<Num(start), Num(end), Num(handler), type>>)
AddToCode(a, attribute) ==
  [a EXCEPT !.attributes = Append(@, attribute), !.length = @ + 6 + attribute.length]

(* ---- members, and the file ---- *)
Info(flags, name, type) == [flags |-> flags, name |-> name, type |-> type, attributes |-> <<>>]
(* FieldInfo::, MethodInfo:: and ClassFile::AddAttribute *)
AddAttribute(i, a) ==
  [i EXCEPT !.attributes = Append(@, a), !.flags = IF a.kind = "Synthetic" THEN @ \ {SYNTHETIC} ELSE @]

(* The name of an attribute is one byte here, and no other name has one byte. *)
AttributeName ==
  [ConstantValue |-> 1, Code |-> 2, Exceptions |-> 3, InnerClasses |-> 4, Synthetic |-> 5,
   SourceFile |-> 6, LineNumberTable |-> 7, LocalVariableTable |-> 8, Deprecated |-> 9,
   Signature |-> 10, EnclosingMethod |-> 11, StackMapTable |-> 12,
   RuntimeVisibleAnnotations |-> 13, RuntimeInvisibleAnnotations |-> 14, StackMap |-> 15,
   RuntimeVisibleParameterAnnotations |-> 16, RuntimeInvisibleParameterAnnotations |-> 17,
   AnnotationDefault |-> 18, LocalVariableTypeTable |-> 19]
PutRows(pool, rows) == FlattenSeq([i \in 1 .. Len(rows) |->
  FlattenSeq([j \in 1 .. Len(rows[i]) |-> Item(pool, rows[i][j])])])
PutAnnotations(pool, ns) ==
  U2(Len(ns)) \o FlattenSeq([i \in 1 .. Len(ns) |-> PutAnnotation(pool, ns[i])])
PutTypes(pool, types) ==
  U2(Len(types)) \o FlattenSeq([i \in 1 .. Len(types) |->
    <<types[i][1]>> \o CASE types[i][1] = 7 -> Item(pool, types[i][2])
                         [] types[i][1] = 8 -> U2(types[i][2])
                         [] OTHER -> <<>>])
PutStackMap(pool, frames) ==
  U2(Len(frames)) \o FlattenSeq([i \in 1 .. Len(frames) |->
    U2(frames[i].pc) \o PutTypes(pool, frames[i].locals) \o PutTypes(pool, frames[i].stack)])
(* What follows the name and the length of an attribute that is not the code. *)
Body(pool, a) ==
  CASE a.kind \in Tables -> U2(Len(a.rows)) \o PutRows(pool, a.rows)
    [] a.kind \in AnnotationKinds -> PutAnnotations(pool, a.annotations)
    [] a.kind \in ParameterKinds ->
         <<Len(a.parameters)>> \o
         FlattenSeq([i \in 1 .. Len(a.parameters) |-> PutAnnotations(pool, a.parameters[i])])
    [] a.kind = "AnnotationDefault" -> PutValue(pool, a.value)
    [] a.kind = "StackMap" -> PutStackMap(pool, a.frames)
    [] a.kind = "StackMapTable" -> a.bytes
    [] OTHER -> PutRows(pool, a.rows)
PutHead(pool, a) == U2(Index(pool, Utf8(<<AttributeName[a.kind]>>))) \o U4(a.length)
PutCode(pool, a) ==
  U2(a.stack) \o U2(a.locals) \o U4(Len(a.code)) \o a.code
  \o U2(Len(a.rows)) \o PutRows(pool, a.rows)
  \o U2(Len(a.attributes))
  \o FlattenSeq([i \in 1 .. Len(a.attributes) |->
       PutHead(pool, a.attributes[i]) \o Body(pool, a.attributes[i])])
PutAttributes(pool, as) ==
  U2(Len(as)) \o FlattenSeq([i \in 1 .. Len(as) |->
    PutHead(pool, as[i]) \o
    IF as[i].kind = "Code" THEN PutCode(pool, as[i]) ELSE Body(pool, as[i])])
PutInfo(pool, i) ==
  U2(Word(i.flags)) \o U2(Index(pool, Utf8(i.name))) \o U2(Index(pool, Utf8(i.type)))
  \o PutAttributes(pool, i.attributes)
PutInfos(pool, is) ==
  U2(Len(is)) \o FlattenSeq([i \in 1 .. Len(is) |-> PutInfo(pool, is[i])])
(* ClassFile::Write *)
PutClass(c) ==
  <<202, 254, 186, 190>> \o U2(c.minor) \o U2(c.major)
  \o U2(Len(c.pool) + 1)
  \o FlattenSeq([i \in 1 .. Len(c.pool) |-> PutConstant(c.pool, c.pool[i])])
  \o U2(Word(c.flags)) \o U2(Index(c.pool, c.this)) \o U2(Index(c.pool, c.super))
  \o U2(Len(c.interfaces)) \o PutRows(c.pool, [i \in 1 .. Len(c.interfaces) |-> <<c.interfaces[i]>>])
  \o PutInfos(c.pool, c.fields) \o PutInfos(c.pool, c.methods)
  \o PutAttributes(c.pool, c.attributes)

-----------------------------------------------------------------------------
(* How a class file is read (ClassFile::ClassFile and the constructors it calls *)
(* for what it finds, src/src/codegen/class.cpp).  A reading is the file, how   *)
(* far it has been read, whether something was wrong with it, the constants met *)
(* so far as they are in the file, and what was read last.  Nothing stops a     *)
(* reading: after something wrong it goes on, and what it gives is not used.    *)
Reading(file) == [file |-> file, at |-> 0, bad |-> FALSE, pool |-> <<>>, got |-> 0]
MarkInvalid(r, wrong) == [r EXCEPT !.bad = @ \/ wrong]
Got(r, value) == [r EXCEPT !.got = value]
CutShort(r) == [r EXCEPT !.bad = TRUE, !.at = Len(r.file), !.got = 0]

GetU1(r) ==
  IF r.at = Len(r.file) THEN [r EXCEPT !.bad = TRUE, !.got = 0]
  ELSE [r EXCEPT !.at = @ + 1, !.got = r.file[r.at + 1]]
U2At(r, at) == 256 * r.file[at + 1] + r.file[at + 2]
GetU2(r) ==
  IF r.at + 1 >= Len(r.file) THEN CutShort(r)
  ELSE [r EXCEPT !.at = @ + 2, !.got = U2At(r, r.at)]
PeekU2(r) ==
  IF r.at + 1 >= Len(r.file) THEN [r EXCEPT !.bad = TRUE, !.got = 0]
  ELSE Got(r, U2At(r, r.at))
(* A length of 2^31 or more is only known to be more than any file has. *)
GetU4(r) ==
  IF r.at + 3 >= Len(r.file) THEN CutShort(r)
  ELSE [r EXCEPT !.at = @ + 4,
                 !.got = IF r.file[r.at + 1] > 127 THEN 2147483647
                         ELSE 65536 * U2At(r, r.at) + U2At(r, r.at + 2)]
GetU8(r) ==
  IF r.at + 7 >= Len(r.file) THEN CutShort(r)
  ELSE [r EXCEPT !.at = @ + 8, !.got = SubSeq(r.file, r.at + 1, r.at + 8)]
(* The bytes there are, when fewer are left. *)
GetN(r, n) ==
  IF n > Len(r.file) - r.at
  THEN [CutShort(r) EXCEPT !.got = SubSeq(r.file, r.at + 1, Len(r.file))]
  ELSE [r EXCEPT !.at = @ + n, !.got = SubSeq(r.file, r.at + 1, r.at + n)]
SkipN(r, n) ==
  IF n > Len(r.file) - r.at THEN CutShort(r) ELSE [r EXCEPT !.at = @ + n]

(* Steps one after the other: each adds what it gives to what is at hand.  And   *)
(* one step as many times as the number read before it says.                    *)
Pushed(before, r) == Got(r, Append(before, r.got))
Then(r, Get(_)) == Pushed(r.got, Get(r))
Begin(r) == Got(r, <<>>)
Times(r, n, Get(_)) == FoldLeft(LAMBDA x, i : Then(x, Get), Begin(r), [i \in 1 .. n |-> i])
Counted(r, Get(_)) == Times(r, r.got, Get)

(* ---- the constant pool ---- *)
(* CPUtf8Info::Init: well-formed as far as the lengths of its characters go. *)
Continues(bytes, i) == i <= Len(bytes) /\ bytes[i] \in 128 .. 191
WellFormed(bytes) ==
  LET from[i \in 1 .. Len(bytes) + 1] ==
        \/ i > Len(bytes)
        \/ bytes[i] \in 1 .. 127 /\ from[i + 1]
        \/ bytes[i] \in 128 .. 223 /\ Continues(bytes, i + 1) /\ from[i + 2]
        \/ /\ bytes[i] \in 224 .. 239
           /\ Continues(bytes, i + 1) /\ Continues(bytes, i + 2) /\ from[i + 3]
  IN from[1]
Utf8Read(r, size) ==
  MarkInvalid(Got(r, Utf8(r.got)), Len(r.got) # size \/ ~ WellFormed(r.got))
GetText(r) == Utf8Read(GetN(r, r.got), r.got)
GetUtf8(r) == GetText(GetU2(r))
(* A constant as it is in the file: its tag, and the indices it holds. *)
Bytes4(r) == IF r.at + 3 >= Len(r.file) THEN CutShort(r) ELSE GetN(r, 4)
GetConstant(r, t) ==
  CASE t = 1 -> GetUtf8(r)
    [] t \in {3, 4} -> Then(Got(r, <<t>>), Bytes4)
    [] t \in {5, 6} -> Then(Got(r, <<t>>), GetU8)
    [] t \in {7, 8} -> Then(Got(r, <<t>>), GetU2)
    [] t \in 9 .. 12 -> Then(Then(Got(r, <<t>>), GetU2), GetU2)
    [] t = 15 -> SkipN(Got(r, <<t>>), 3)
    [] t \in {17, 18} -> SkipN(Got(r, <<t>>), 4)
    [] t \in {16, 19, 20} -> SkipN(Got(r, <<t>>), 2)
    [] OTHER -> [r EXCEPT !.bad = TRUE, !.got = <<1>>]
FromTag(r) == GetConstant(r, r.got)
AllocateCPInfo(r) == FromTag(GetU1(r))
At(r, i) == IF i \in DOMAIN r.pool THEN r.pool[i] ELSE Gap
TagAt(r, i) == At(r, i)[1]
(* CPInfo::Check *)
Check(r, k) ==
  CASE k[1] \in {7, 8} -> TagAt(r, k[2]) = 1
    [] k[1] \in 9 .. 11 -> TagAt(r, k[2]) = 7 /\ TagAt(r, k[3]) = 12
    [] k[1] = 12 -> TagAt(r, k[2]) = 1 /\ TagAt(r, k[3]) = 1
    [] OTHER -> TRUE
Entered(r) == [r EXCEPT !.pool = SetNext(@, r.got)]
NextConstant(r, count) == IF Len(r.pool) + 1 >= count THEN r ELSE Entered(AllocateCPInfo(r))
Checked(r, count) ==
  MarkInvalid(r, count = 0 \/ \E i \in DOMAIN r.pool : ~ Check(r, r.pool[i]))
Constants(r, count) ==
  Checked(FoldLeft(LAMBDA x, i : NextConstant(x, count), r, [i \in 1 .. count |-> i]), count)
FromCount(r) == Constants(r, r.got)
GetPool(r) == FromCount(GetU2(r))
(* The constant an index names, by what it names in turn. *)
TextAt(r, i) == IF TagAt(r, i) = 1 THEN At(r, i)[2] ELSE <<>>
PartAt(r, i, tag, n) == IF TagAt(r, i) = tag THEN TextAt(r, At(r, i)[n]) ELSE <<>>
ByName(r, k) ==
  CASE k[1] \in {7, 8} -> <<k[1], TextAt(r, k[2])>>
    [] k[1] = 12 -> <<12, TextAt(r, k[2]), TextAt(r, k[3])>>
    [] k[1] \in 9 .. 11 -> <<k[1], PartAt(r, k[2], 7, 2), PartAt(r, k[3], 12, 2), PartAt(r, k[3], 12, 3)>>
    [] OTHER -> k
Constant(r, i) == ByName(r, At(r, i))

(* ---- attributes that are rows of two-byte items ---- *)
(* The tags the constant an item names may have; none for an item that names no *)
(* constant, and 0 among them for an item that may be left out.                 *)
ConstantValueRow == <<{3, 4, 5, 6, 8}>>
ExceptionsRow == <<{7}>>
InnerClassesRow == <<{7}, {7, 0}, {1, 0}, {}>>
SourceFileRow == <<{1}>>
SignatureRow == <<{1}>>
LineNumberRow == <<{}, {}>>
LocalVariableRow == <<{}, {}, {1}, {1}, {}>>
EnclosingMethodRow == <<{7}, {12, 0}>>
HandlerRow == <<{}, {}, {}, {7, 0}>>
ItemFits(r, tags, i) ==
  tags = {} \/ IF i = 0 THEN 0 \in tags ELSE TagAt(r, i) \in tags \ {0}
ItemRead(r, tags, i) == IF tags = {} THEN Num(i) ELSE IF i = 0 THEN Gap ELSE Constant(r, i)
RowRead(r, row) ==
  MarkInvalid(Got(r, [j \in 1 .. Len(row) |-> ItemRead(r, row[j], r.got[j])]),
              \E j \in 1 .. Len(row) : ~ ItemFits(r, row[j], r.got[j]))
GetRow(r, row) == RowRead(Times(r, Len(row), GetU2), row)
GetItem(r, tags) == LET The(x) == Got(x, x.got[1]) IN The(GetRow(r, <<tags>>))
GetRows(r, row) == LET Get(x) == GetRow(x, row) IN Counted(GetU2(r), Get)
RowOf ==
  [ConstantValue |-> ConstantValueRow, SourceFile |-> SourceFileRow, Signature |-> SignatureRow,
   EnclosingMethod |-> EnclosingMethodRow, Synthetic |-> <<>>, Deprecated |-> <<>>]
TableOf ==
  [Exceptions |-> ExceptionsRow, InnerClasses |-> InnerClassesRow,
   LineNumberTable |-> LineNumberRow, LocalVariableTable |-> LocalVariableRow,
   LocalVariableTypeTable |-> LocalVariableRow]
(* AccessFlags: at most one of the bits that say who may use what is declared. *)
LegalAccess(flags) == Cardinality(flags \cap {PUBLIC, PRIVATE, PROTECTED}) <= 1
FlagsOf(word) == {b \in FlagBits : (word \div b) % 2 = 1}
LegalClass(row) == LegalAccess(FlagsOf(row[4][2]))

(* ---- annotations ---- *)
(* The tag a component value of each kind wants of its constant. *)
ConstantOf == [t \in {90, 66, 67, 83, 73, 74, 70, 68, 115, 99} |->
  CASE t \in {90, 66, 67, 83, 73} -> 3 [] t = 74 -> 5 [] t = 70 -> 4 [] t = 68 -> 6
    [] t = 115 -> 1 [] t = 99 -> 7]
EnumRow == <<{7}, {1}>>
GetUtf8Item(r) == GetItem(r, {1})
RECURSIVE GetValue(_), GetAnnotation(_)
GetComponent(r) == Then(Then(Begin(r), GetUtf8Item), GetValue)
GetComponents(r) == Counted(GetU2(r), GetComponent)
AnnotationRead(r) == Got(r, Annotation(r.got[1], r.got[2]))
GetAnnotation(r) == AnnotationRead(Then(Then(Begin(r), GetUtf8Item), GetComponents))
Tagged(r, t) == Got(r, <<t, r.got>>)
GetTagged(r, t) ==
  CASE t \in DOMAIN ConstantOf -> Tagged(GetItem(r, {ConstantOf[t]}), t)
    [] t = 101 -> LET All(x) == Got(x, <<t>> \o x.got) IN All(GetRow(r, EnumRow))
    [] t = 64 -> Tagged(GetAnnotation(r), t)
    [] t = 91 -> Tagged(Counted(GetU2(r), GetValue), t)
    [] OTHER -> [r EXCEPT !.bad = TRUE, !.got = <<t>>]
FromValueTag(r) == GetTagged(r, r.got)
GetValue(r) == FromValueTag(GetU1(r))
(* AnnotationsAttribute, ParameterAnnotationsAttribute *)
GetAnnotations(r) == Counted(GetU2(r), GetAnnotation)
LengthOf(annotations) ==
  MapThenSumSet(LAMBDA i : AnnotationLength(annotations[i]), DOMAIN annotations)

(* ---- attributes ---- *)
GetVerificationType(r) ==
  LET Of(x) == CASE x.got \in 0 .. 6 -> Got(x, <<x.got>>)
                 [] x.got = 7 -> Tagged(GetItem(x, {7}), 7)
                 [] x.got = 8 -> Tagged(GetU2(x), 8)
                 [] OTHER -> [x EXCEPT !.bad = TRUE, !.got = Gap]
  IN Of(GetU1(r))
GetTypes(r) == Counted(GetU2(r), GetVerificationType)
SizeOf(types) == 2 + MapThenSumSet(LAMBDA i : IF types[i][1] < 7 THEN 1 ELSE 3, DOMAIN types)
FrameSize(frame) == 2 + SizeOf(frame.locals) + SizeOf(frame.stack)
GetStackMapFrame(r) ==
  LET Frame(x) == Got(x, [pc |-> x.got[1], locals |-> x.got[2], stack |-> x.got[3]])
  IN Frame(Then(Then(Then(Begin(r), GetU2), GetTypes), GetTypes))
GetStackMap(r, length) ==
  LET Map(x) == MarkInvalid(Got(x, [kind |-> "StackMap", length |-> length, frames |-> x.got]),
                            length # 2 + MapThenSumSet(LAMBDA i : FrameSize(x.got[i]), DOMAIN x.got))
  IN Map(Counted(GetU2(r), GetStackMapFrame))

(* AttributeInfo::Tag: the kind of an attribute of that name.  A StackMapTable   *)
(* has a kind of its own there and is then read as an unknown attribute.         *)
KindOf(name) ==
  IF \E k \in DOMAIN AttributeName \ {"StackMapTable"} : <<AttributeName[k]>> = name
  THEN CHOOSE k \in DOMAIN AttributeName : <<AttributeName[k]>> = name
  ELSE "Generic"
GetAnnotationsAttribute(r, kind, length) ==
  LET All(x) == MarkInvalid(Got(x, [kind |-> kind, length |-> length, annotations |-> x.got]),
                            length # 2 + LengthOf(x.got))
  IN All(GetAnnotations(r))
GetParameterAnnotations(r, kind, length) ==
  LET All(x) == MarkInvalid(Got(x, [kind |-> kind, length |-> length, parameters |-> x.got]),
                  length # 1 + MapThenSumSet(LAMBDA i : 2 + LengthOf(x.got[i]), DOMAIN x.got))
  IN All(Counted(GetU1(r), GetAnnotations))
GetAnnotationDefault(r, length) ==
  LET Of(x) == MarkInvalid(Got(x, [kind |-> "AnnotationDefault", length |-> length, value |-> x.got]),
                           length # ValueLength(x.got))
  IN Of(GetValue(r))
GetTable(r, kind, length) ==
  LET Of(x) == MarkInvalid(Got(x, [kind |-> kind, length |-> length, rows |-> x.got]),
                 \/ length # 2 + 2 * Len(TableOf[kind]) * Len(x.got)
                 \/ kind = "InnerClasses" /\ \E i \in DOMAIN x.got : ~ LegalClass(x.got[i]))
  IN Of(GetRows(r, TableOf[kind]))
GetSingleRow(r, kind, length) ==
  LET Of(x) == MarkInvalid(Got(x, Row(kind, length, x.got)), length # 2 * Len(RowOf[kind]))
  IN Of(GetRow(r, RowOf[kind]))
GetUnknown(r, length) ==
  LET Of(x) == Got(x, [kind |-> "Generic", length |-> length, bytes |-> x.got])
  IN Of(GetN(r, length))
(* AttributeInfo::AllocateAttributeInfo, for all but the code of a method.  An   *)
(* attribute of a Code attribute cannot be one: the file is invalid.             *)
GetAttributeOf(r, kind, n) ==
  CASE kind \in DOMAIN RowOf -> GetSingleRow(r, kind, n)
    [] kind \in DOMAIN TableOf -> GetTable(r, kind, n)
    [] kind \in AnnotationKinds -> GetAnnotationsAttribute(r, kind, n)
    [] kind \in ParameterKinds -> GetParameterAnnotations(r, kind, n)
    [] kind = "AnnotationDefault" -> GetAnnotationDefault(r, n)
    [] kind = "StackMap" -> GetStackMap(r, n)
    [] kind = "Code" -> Got(r, [kind |-> "Code", length |-> n])
    [] OTHER -> GetUnknown(r, n)
AfterName(r, kind) == LET Of(x) == GetAttributeOf(x, kind, x.got) IN Of(GetU4(GetU2(r)))
FromName(r) ==
  AfterName(MarkInvalid(r, TagAt(r, r.got) # 1),
            IF TagAt(r, r.got) = 1 THEN KindOf(TextAt(r, r.got)) ELSE "Generic")
AllocateAttributeInfo(r) == FromName(PeekU2(r))
(* Attributes one after the other, none twice but those that are not known. *)
Twice(attributes) ==
  \E i, j \in DOMAIN attributes :
    i < j /\ attributes[i].kind = attributes[j].kind /\ attributes[i].kind # "Generic"
Unexpected(attributes, allowed) ==
  \E i \in DOMAIN attributes : attributes[i].kind \notin allowed \cup {"Generic"}
CodeAttributes == {"LineNumberTable", "LocalVariableTable", "LocalVariableTypeTable", "StackMap"}
(* CodeAttribute::CodeAttribute.  The code itself is passed over. *)
GetSize(r) == LET Of(x) == Got(SkipN(x, x.got), x.got) IN Of(GetU4(r))
GetHandlers(r) == GetRows(r, HandlerRow)
GetCodeAttributes(r) == Counted(GetU2(r), AllocateAttributeInfo)
CodeRead(r, length, stack, locals, size, handlers, as) ==
  MarkInvalid(
    Got(r, [kind |-> "Code", length |-> length, stack |-> stack, locals |-> locals,
            rows |-> handlers, attributes |-> as]),
    \/ Twice(as) \/ Unexpected(as, CodeAttributes)
    \/ length - 12 - 8 * Len(handlers) - MapThenSumSet(LAMBDA i : 6 + as[i].length, DOMAIN as) # size)
GetCode(r, length) ==
  LET Of(x) == CodeRead(x, length, x.got[1], x.got[2], x.got[3], x.got[4], x.got[5])
  IN Of(Then(Then(Then(Then(Then(Begin(r), GetU2), GetU2), GetSize), GetHandlers), GetCodeAttributes))
GetAttribute(r) ==
  LET Of(x) == IF x.got.kind = "Code" THEN GetCode(x, x.got.length) ELSE x
  IN Of(AllocateAttributeInfo(r))

(* ---- members, and the file ---- *)
FieldAttributes == {"Synthetic", "Deprecated", "ConstantValue", "Signature"} \cup AnnotationKinds
MethodAttributes ==
  {"Synthetic", "Deprecated", "Code", "Signature", "Exceptions", "AnnotationDefault"}
  \cup AnnotationKinds \cup ParameterKinds
ClassAttributes ==
  {"Synthetic", "Deprecated", "Signature", "SourceFile", "InnerClasses", "EnclosingMethod"}
  \cup AnnotationKinds
Has(attributes, kind) == \E i \in DOMAIN attributes : attributes[i].kind = kind
TheOnly(attributes, kind) == attributes[CHOOSE i \in DOMAIN attributes : attributes[i].kind = kind]
FieldIsBad(flags, as) ==
  \/ Twice(as) \/ Unexpected(as, FieldAttributes)
  \/ Has(as, "ConstantValue") /\ FINAL \notin flags
MethodIsBad(flags, as) ==
  \/ Twice(as) \/ Unexpected(as, MethodAttributes)
  \/ Has(as, "Code") # ({NATIVE, ABSTRACT} \cap flags = {})
  \/ Has(as, "AnnotationDefault") /\ ~ {ABSTRACT, PUBLIC} \subseteq flags
ClassIsBad(as) == Twice(as) \/ Unexpected(as, ClassAttributes)
WithSynthetic(flags, as) == IF Has(as, "Synthetic") THEN flags \cup {SYNTHETIC} ELSE flags
GetAttributes(r) == Counted(GetU2(r), GetAttribute)
(* FieldInfo::FieldInfo and MethodInfo::MethodInfo *)
GetFlags(r) == LET Of(x) == Got(x, FlagsOf(x.got)) IN Of(GetU2(r))
InfoRead(r, flags, name, type, as) ==
  Got(r, [flags |-> WithSynthetic(flags, as), name |-> Constant(r, name), type |-> Constant(r, type),
          attributes |-> as])
GetInfo(r) == Then(Then(Then(Then(Begin(r), GetFlags), GetU2), GetU2), GetAttributes)
Information(r, IsBad(_, _)) ==
  MarkInvalid(InfoRead(r, r.got[1], r.got[2], r.got[3], r.got[4]), IsBad(r.got[1], r.got[4]))
GetMember(r, isField) ==
  LET Of(x) == IF isField THEN Information(x, FieldIsBad) ELSE Information(x, MethodIsBad) IN Of(GetInfo(r))
GetMembers(r, isField) == LET Get(x) == GetMember(x, isField) IN Counted(GetU2(r), Get)
GetClassItem(r) == GetItem(r, {7})
GetSuper(r) == GetItem(r, {7, 0})
GetInterfaces(r) == Counted(GetU2(r), GetClassItem)
GetFields(r) == GetMembers(r, TRUE)
GetMethods(r) == GetMembers(r, FALSE)
GetMagic(r) == GetN(r, 4)
ClassRead(r, x) ==
  [valid |-> ~ (\/ r.bad \/ x[1] # <<202, 254, 186, 190>> \/ x[3] < 45 \/ ~ LegalAccess(x[5])
                \/ ClassIsBad(x[10])),
   at |-> r.at,
   class |-> [minor |-> x[2], major |-> x[3], flags |-> WithSynthetic(x[5], x[10]), this |-> x[6],
              super |-> x[7], interfaces |-> x[8], fields |-> x[9][1], methods |-> x[9][2],
              attributes |-> x[10]]]
(* ClassFile::ClassFile *)
GetAllMembers(r) == Then(Then(Begin(r), GetFields), GetMethods)
UpToMembers(r) ==
  Then(Then(Then(Then(Then(Then(Then(Then(Begin(r), GetMagic), GetU2), GetU2), GetPool), GetFlags),
                 GetClassItem), GetSuper), GetInterfaces)
GetClass(file) ==
  LET Of(x) == ClassRead(x, x.got) IN Of(Then(Then(UpToMembers(Reading(file)), GetAllMembers), GetAttributes))
=============================================================================
