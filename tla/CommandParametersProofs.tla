----------------------- MODULE CommandParametersProofs ------------------------
(***************************************************************************)
(* Proofs about CommandParameters, for any objects, columns, batches and   *)
(* number of executions: an update sends every change that no execution    *)
(* has had, and forgets none; and the values of a command reach the places *)
(* they are meant for, if strings are what TextLaws says they are.         *)
(***************************************************************************)
EXTENDS CommandParameters, FiniteSetTheorems, SequenceTheorems, WellFoundedInduction, TLAPS

IsSequence(s) == \E S : s \in Seq(S)

(* What the next update of an object would send.                           *)
Rest(e) == IF isDirty[e] THEN marked[e] ELSE {}

Updating == use = "update" /\ phase = "building"
Passed(e) == \E k \in 1 .. index : batch[k] = e

(* While an update is built, what is not sent of the objects it has passed *)
(* is in its statement, and of the others it has said nothing.             *)
PassedIsSaid ==
  Updating =>
    /\ \A i \in DOMAIN statement : Passed(statement[i].meant[1])
    /\ ~refused => \A e \in Tracked : Passed(e) => ~isDirty[e] /\ unsent[e] = SetColumns(e)
OthersAreMarked ==
  ~refused => \A e \in Tracked : ~(Updating /\ Passed(e)) => unsent[e] = Rest(e)

ParametersInv ==
  /\ TypeOK
  /\ IsSequence(parameters) /\ IsSequence(statement)
  /\ marked \in [Entities -> SUBSET Settable]
  /\ unsent \in [Entities -> SUBSET Settable]
  /\ isDirty \in [Entities -> BOOLEAN]
  /\ phase = "building" => uses < MaxUses
  /\ PassedIsSaid /\ OthersAreMarked

(* The parameters are those of the statement and no others.                *)
Corresponds ==
  /\ Len(parameters) = Len(statement)
  /\ \A i \in DOMAIN statement :
       parameters[i].name = statement[i].name /\ parameters[i].value = statement[i].meant
(* No two places of the same name mean different values.                   *)
OneMeaning ==
  \A i, j \in DOMAIN statement :
    statement[i].name = statement[j].name => statement[i].meant = statement[j].meant

(* Until a list comes, the counter of a query is the number of its         *)
(* parameters.                                                             *)
Numbered == \A i \in DOMAIN statement : statement[i].name = "@p" \o ToString(i - 1)
Counted == (\A i \in DOMAIN arguments : arguments[i] < 0) => parameterIndex = Len(parameters)

(* What an update says of the k-th object that it has passed.              *)
Suffix(c, i) == IF c = PrimaryColumn THEN "PK" \o ToString(i) ELSE ToString(i)
Name(c, i) == "@p" \o c \o Suffix(c, i)
Said ==
  \A i \in DOMAIN statement : \E k \in 1 .. index, c \in Columns :
    statement[i] = Placeholder(Name(c, k - 1), Property(batch[k], c))

(* The first execution of an update or a delete, and what comes before it. *)
First == use # "query" /\ ~refused /\ (uses = 0 \/ (uses = 1 /\ Sent))

(* The parameters of a query are those of its statement, in order, as long *)
(* as lists come last.  So are those of an update or a delete until it was *)
(* executed once, and then a name has one meaning, if the names can be     *)
(* told apart.                                                             *)
TextInv ==
  /\ arguments \in Seq(Int)
  /\ Sent => uses > 0
  /\ use = "query" /\ ListsComeLast => Corresponds /\ Numbered /\ Counted
  /\ First => Corresponds /\ (phase = "idle" => parameters = <<>>)
  /\ First /\ use = "delete" => OneMeaning
  /\ First /\ Updating => Said
  /\ First /\ use = "update" /\ Sent /\ Unambiguous(UsedColumns, Len(batch)) => OneMeaning

-----------------------------------------------------------------------------
(* Sequences.                                                              *)

LEMMA Listed ==
  ASSUME NEW n \in Nat, NEW f, f = [i \in 1 .. n |-> f[i]]
  PROVE  IsSequence(f) /\ Len(f) = n /\ DOMAIN f = 1 .. n
<1> DEFINE S == {f[i] : i \in 1 .. n}
<1>1. \A i \in 1 .. n : f[i] \in S
  OBVIOUS
<1> HIDE DEF S
<1>2. f \in [1 .. n -> S]
  BY <1>1
<1>3. f \in Seq(S)
  BY <1>2, SeqDef
<1>4. Len(f) \in Nat /\ DOMAIN f = 1 .. Len(f)
  BY <1>3, LenProperties
<1> QED
  BY <1>2, <1>3, <1>4 DEF IsSequence

LEMMA Joint ==
  ASSUME NEW s, NEW t, IsSequence(s), IsSequence(t)
  PROVE  /\ IsSequence(s \o t)
         /\ Len(s) \in Nat /\ Len(t) \in Nat /\ Len(s \o t) = Len(s) + Len(t)
         /\ DOMAIN s = 1 .. Len(s) /\ DOMAIN t = 1 .. Len(t)
         /\ DOMAIN (s \o t) = 1 .. Len(s) + Len(t)
         /\ \A i \in 1 .. Len(s) : (s \o t)[i] = s[i]
         /\ \A i \in 1 .. Len(t) : (s \o t)[Len(s) + i] = t[i]
<1>1. PICK S : s \in Seq(S)
  BY DEF IsSequence
<1>2. PICK T : t \in Seq(T)
  BY DEF IsSequence
<1>3. s \in Seq(S \cup T)
  BY <1>1, SeqMonotonic
<1>4. t \in Seq(S \cup T)
  BY <1>2, SeqMonotonic
<1>5. PICK U : U = S \cup T
  OBVIOUS
<1>6. s \in Seq(U) /\ t \in Seq(U)
  BY <1>3, <1>4, <1>5
<1>7. s \o t \in Seq(U)
  BY <1>6, ConcatProperties
<1>8. /\ Len(s) \in Nat /\ Len(t) \in Nat /\ Len(s \o t) = Len(s) + Len(t)
      /\ DOMAIN s = 1 .. Len(s) /\ DOMAIN t = 1 .. Len(t)
      /\ DOMAIN (s \o t) = 1 .. Len(s) + Len(t)
  BY <1>6, <1>7, ConcatProperties, LenProperties
<1>9. \A i \in 1 .. Len(s) + Len(t) :
        (s \o t)[i] = IF i <= Len(s) THEN s[i] ELSE t[i - Len(s)]
  BY <1>6, ConcatProperties
<1>10. \A i \in 1 .. Len(s) : (s \o t)[i] = s[i]
  BY <1>8, <1>9
<1>11. \A i \in 1 .. Len(t) : (s \o t)[Len(s) + i] = t[i]
  BY <1>8, <1>9
<1> QED
  BY <1>7, <1>8, <1>10, <1>11 DEF IsSequence

(* t is s with the n elements of b behind it.                              *)
Extended(t, s, b, n) ==
  /\ IsSequence(t) /\ Len(s) \in Nat /\ n \in Nat /\ Len(t) = Len(s) + n
  /\ DOMAIN s = 1 .. Len(s) /\ DOMAIN t = 1 .. Len(s) + n
  /\ \A i \in 1 .. Len(s) : t[i] = s[i]
  /\ \A i \in 1 .. n : t[Len(s) + i] = b[i]

LEMMA Lengthened ==
  ASSUME NEW s, NEW b, NEW t, NEW n, IsSequence(s), IsSequence(b), Len(b) = n, t = s \o b
  PROVE  Extended(t, s, b, n)
<1>1. /\ IsSequence(t) /\ Len(s) \in Nat /\ Len(b) \in Nat /\ Len(t) = Len(s) + Len(b)
      /\ DOMAIN s = 1 .. Len(s) /\ DOMAIN t = 1 .. Len(s) + Len(b)
      /\ \A i \in 1 .. Len(s) : t[i] = s[i]
      /\ \A i \in 1 .. Len(b) : t[Len(s) + i] = b[i]
  BY Joint
<1> QED
  BY <1>1 DEF Extended

(* SetToSeq lists all elements of a set.                                   *)
LEMMA AllListed ==
  ASSUME NEW S, IsFiniteSet(S)
  PROVE  /\ Cardinality(S) \in Nat
         /\ \A j \in 1 .. Cardinality(S) : SetToSeq(S)[j] \in S
         /\ \A c \in S : \E j \in 1 .. Cardinality(S) : SetToSeq(S)[j] = c
<1>1. PICK n : n = Cardinality(S)
  OBVIOUS
<1>2. n \in Nat /\ ExistsBijection(1 .. n, S)
  BY <1>1, FS_CardinalityType
<1>3. PICK b \in Bijection(1 .. n, S) : TRUE
  BY <1>2 DEF ExistsBijection
<1>4. b \in [1 .. n -> S] /\ IsInjective(b)
  BY <1>3 DEF Bijection, Injection
<1>5. PICK f : f = SetToSeq(S)
  OBVIOUS
<1>6. f \in [1 .. n -> S] /\ IsInjective(f)
  <2>1. f = CHOOSE g \in [1 .. n -> S] : IsInjective(g)
    BY <1>1, <1>5 DEF SetToSeq
  <2> QED
    BY <1>4, <2>1
<1>7. f \in Injection(1 .. n, S)
  BY <1>6 DEF Injection
<1>8. \A c \in S : \E j \in 1 .. n : f[j] = c
  <2>1. IsFiniteSet(1 .. n) /\ Cardinality(1 .. n) = n
    BY <1>2, FS_Interval
  <2>2. f \in Surjection(1 .. n, S)
    BY <1>1, <1>2, <1>7, <2>1, FS_Injection
  <2> QED
    BY <2>2 DEF Surjection
<1> QED
  BY <1>1, <1>2, <1>5, <1>6, <1>8

-----------------------------------------------------------------------------
(* What an update and a delete append.                                     *)

LEMMA NamesOf ==
  ASSUME NEW r, IsSequence(r)
  PROVE  /\ IsSequence(Names(r)) /\ Len(Names(r)) = Len(r)
         /\ DOMAIN Names(r) = 1 .. Len(r) /\ DOMAIN r = 1 .. Len(r) /\ Len(r) \in Nat
         /\ \A j \in 1 .. Len(r) :
              Names(r)[j] = Placeholder(r[j].name, r[j].value) /\ Names(r)[j].meant = r[j].value
<1>1. PICK S : r \in Seq(S)
  BY DEF IsSequence
<1>2. Len(r) \in Nat /\ DOMAIN r = 1 .. Len(r)
  BY <1>1, LenProperties
<1>3. PICK n : n = Len(r)
  OBVIOUS
<1>4. PICK f : f = Names(r)
  OBVIOUS
<1>5. f = [i \in 1 .. n |-> Placeholder(r[i].name, r[i].value)]
  BY <1>2, <1>3, <1>4 DEF Names
<1>6. f = [i \in 1 .. n |-> f[i]] /\ n \in Nat
  BY <1>2, <1>3, <1>5
<1>7. IsSequence(f) /\ Len(f) = n /\ DOMAIN f = 1 .. n
  BY <1>6, Listed
<1>8. \A j \in 1 .. n : f[j] = Placeholder(r[j].name, r[j].value) /\ f[j].meant = r[j].value
  BY <1>5 DEF Placeholder
<1> QED
  BY <1>2, <1>3, <1>4, <1>7, <1>8

(* An update retrieves the marked columns and the key of its object.       *)
LEMMA RetrievedColumns ==
  ASSUME ParametersInv, NEW e \in Entities, NEW i
  PROVE  /\ IsSequence(Retrieved(e, i)) /\ Len(Retrieved(e, i)) \in Nat
         /\ \A j \in 1 .. Len(Retrieved(e, i)) :
              /\ Retrieved(e, i)[j].value[1] = e
              /\ Retrieved(e, i)[j].value[2] \in marked[e] \cup {PrimaryColumn}
              /\ \E c \in Columns : Retrieved(e, i)[j] = ValueRetriever(e, c, Suffix(c, i))
         /\ \A c \in marked[e] : \E j \in 1 .. Len(Retrieved(e, i)) :
              Retrieved(e, i)[j].value[2] = c
<1> DEFINE changed(n) == [j \in 1 .. n |-> ValueRetriever(e, SetToSeq(marked[e])[j], ToString(i))]
           key == <<ValueRetriever(e, PrimaryColumn, "PK" \o ToString(i))>>
<1>1. PICK n : n = Cardinality(marked[e])
  OBVIOUS
<1>2. marked[e] \in SUBSET Columns /\ PrimaryColumn \notin marked[e] /\ PrimaryColumn \in Columns
  BY ParametersAssumption DEF ParametersInv, Settable
<1>3. /\ n \in Nat
      /\ \A j \in 1 .. n : SetToSeq(marked[e])[j] \in marked[e]
      /\ \A c \in marked[e] : \E j \in 1 .. n : SetToSeq(marked[e])[j] = c
  <2>1. IsFiniteSet(marked[e])
    BY <1>2, ParametersAssumption, FS_Subset
  <2> QED
    BY <1>1, <2>1, AllListed
<1>4. Retrieved(e, i) = changed(n) \o key
  BY <1>1 DEF Retrieved
<1>5. PICK s : s = changed(n)
  OBVIOUS
<1>6. PICK t : t = key
  OBVIOUS
<1>7. /\ IsSequence(s) /\ Len(s) = n
      /\ \A j \in 1 .. n : s[j].value[1] = e /\ s[j].value[2] = SetToSeq(marked[e])[j]
      /\ \A j \in 1 .. n : s[j] = ValueRetriever(e, SetToSeq(marked[e])[j], ToString(i))
  <2>1. s = [j \in 1 .. n |-> s[j]]
    BY <1>5
  <2>2. \A j \in 1 .. n : s[j] = ValueRetriever(e, SetToSeq(marked[e])[j], ToString(i))
    BY <1>5
  <2> QED
    BY <1>3, <2>1, <2>2, Listed DEF ValueRetriever, Parameter, Property
<1>8. /\ IsSequence(t) /\ Len(t) = 1 /\ t[1].value[1] = e /\ t[1].value[2] = PrimaryColumn
      /\ t[1] = ValueRetriever(e, PrimaryColumn, "PK" \o ToString(i))
  <2>1. PICK x : x = ValueRetriever(e, PrimaryColumn, "PK" \o ToString(i))
    OBVIOUS
  <2>2. t = <<x>>
    BY <1>6, <2>1
  <2>3. t \in Seq({x}) /\ Len(t) = 1 /\ t[1] = x
    BY <2>2
  <2>4. x.value[1] = e /\ x.value[2] = PrimaryColumn
    BY <2>1 DEF ValueRetriever, Parameter, Property
  <2> QED
    BY <2>1, <2>3, <2>4 DEF IsSequence
<1> HIDE DEF changed, key
<1>9. PICK r : r = s \o t
  OBVIOUS
<1>10. /\ IsSequence(r) /\ Len(r) = n + 1
       /\ \A j \in 1 .. n : r[j] = s[j]
       /\ r[n + 1] = t[1]
  <2>1. IsSequence(s) /\ IsSequence(t)
    BY <1>7, <1>8
  <2>2. /\ IsSequence(r) /\ Len(r) = Len(s) + Len(t)
        /\ \A j \in 1 .. Len(s) : r[j] = s[j]
        /\ \A j \in 1 .. Len(t) : r[Len(s) + j] = t[j]
    BY <1>9, <2>1, Joint
  <2>3. 1 \in 1 .. Len(t)
    BY <1>8
  <2>4. r[Len(s) + 1] = t[1]
    BY <2>2, <2>3
  <2> QED
    BY <1>7, <1>8, <2>2, <2>4
<1>11. \A j \in 1 .. n + 1 : r[j].value[1] = e /\ r[j].value[2] \in marked[e] \cup {PrimaryColumn}
  <2> SUFFICES ASSUME NEW j \in 1 .. n + 1
               PROVE  r[j].value[1] = e /\ r[j].value[2] \in marked[e] \cup {PrimaryColumn}
    OBVIOUS
  <2>1. CASE j \in 1 .. n
    BY <1>3, <1>7, <1>10, <2>1
  <2>2. CASE j = n + 1
    BY <1>8, <1>10, <2>2
  <2> QED
    BY <1>3, <2>1, <2>2
<1>12. \A j \in 1 .. n + 1 : \E c \in Columns : r[j] = ValueRetriever(e, c, Suffix(c, i))
  <2> SUFFICES ASSUME NEW j \in 1 .. n + 1
               PROVE  \E c \in Columns : r[j] = ValueRetriever(e, c, Suffix(c, i))
    OBVIOUS
  <2>1. CASE j \in 1 .. n
    <3>1. PICK c : c = SetToSeq(marked[e])[j]
      OBVIOUS
    <3>2. c \in Columns /\ c # PrimaryColumn
      BY <1>2, <1>3, <2>1, <3>1
    <3>3. r[j] = ValueRetriever(e, c, Suffix(c, i))
      BY <1>7, <1>10, <2>1, <3>1, <3>2 DEF Suffix
    <3> QED
      BY <3>2, <3>3
  <2>2. CASE j = n + 1
    BY <1>2, <1>8, <1>10, <2>2 DEF Suffix
  <2> QED
    BY <1>3, <2>1, <2>2
<1>13. \A c \in marked[e] : \E j \in 1 .. n + 1 : r[j].value[2] = c
  <2> SUFFICES ASSUME NEW c \in marked[e]
               PROVE  \E j \in 1 .. n + 1 : r[j].value[2] = c
    OBVIOUS
  <2>1. PICK j \in 1 .. n : SetToSeq(marked[e])[j] = c
    BY <1>3
  <2>2. j \in 1 .. n + 1 /\ r[j].value[2] = c
    BY <1>3, <1>7, <1>10, <2>1
  <2> QED
    BY <2>2
<1>14. r = Retrieved(e, i)
  BY <1>4, <1>5, <1>6, <1>9
<1>15. IsSequence(r) /\ Len(r) = n + 1 /\ Len(r) \in Nat
  BY <1>3, <1>10
<1> QED
  BY <1>11, <1>12, <1>13, <1>14, <1>15

(* Each parameter of a delete is named by the number of its object.        *)
NumberedKeys(d, n, objects) ==
  \A j \in 1 .. Len(d) : \E k \in 1 .. n :
    d[j] = ValueRetriever(objects[k], PrimaryColumn, ToString(k - 1))

LEMMA DeletesAreNumbered ==
  ASSUME NEW objects \in Batches, NEW forwards \in BOOLEAN, NEW d, d = DeleteParameters(objects, forwards)
  PROVE  IsSequence(d) /\ Len(objects) \in Nat /\ NumberedKeys(d, Len(objects), objects)
<1>1. objects \in Seq(Entities)
  BY ParametersAssumption
<1>2. PICK n : n = Len(objects)
  OBVIOUS
<1>3. n \in Nat /\ DOMAIN objects = 1 .. n
  BY <1>1, <1>2, LenProperties
<1>4. PICK a : a = [i \in 1 .. n |-> ValueRetriever(objects[i], PrimaryColumn, ToString(i - 1))]
  OBVIOUS
<1>5. d = IF forwards THEN a ELSE Reverse(a)
  BY <1>3, <1>4 DEF DeleteParameters
<1>6. a = [i \in 1 .. n |-> a[i]]
  BY <1>4
<1>7. \A k \in 1 .. n : a[k] = ValueRetriever(objects[k], PrimaryColumn, ToString(k - 1))
  BY <1>4
<1>8. IsSequence(a) /\ Len(a) = n
  BY <1>3, <1>6, Listed
<1>9. PICK r : r = Reverse(a)
  OBVIOUS
<1>10. r = [i \in 1 .. n |-> a[(n - i) + 1]]
  BY <1>8, <1>9 DEF Reverse
<1>11. r = [i \in 1 .. n |-> r[i]]
  BY <1>10
<1>12. IsSequence(r) /\ Len(r) = n
  BY <1>3, <1>11, Listed
<1>13. \A j \in 1 .. n : (n - j) + 1 \in 1 .. n /\ r[j] = a[(n - j) + 1]
  BY <1>3, <1>10
<1>14. NumberedKeys(a, n, objects)
  BY <1>7, <1>8, Zenon DEF NumberedKeys
<1>15. NumberedKeys(r, n, objects)
  <2> SUFFICES ASSUME NEW j \in 1 .. n
               PROVE  \E k \in 1 .. n : r[j] = ValueRetriever(objects[k], PrimaryColumn, ToString(k - 1))
    BY <1>12, Zenon DEF NumberedKeys
  <2>1. PICK k : k = (n - j) + 1
    OBVIOUS
  <2>2. k \in 1 .. n /\ r[j] = a[k]
    BY <1>13, <2>1
  <2>3. r[j] = ValueRetriever(objects[k], PrimaryColumn, ToString(k - 1))
    BY <1>7, <2>2, Zenon
  <2> QED
    BY <2>2, <2>3, Zenon
<1>16. d = a \/ d = r
  BY <1>5, <1>9
<1> QED
  BY <1>2, <1>3, <1>8, <1>12, <1>14, <1>15, <1>16, Zenon

-----------------------------------------------------------------------------
(* The invariant is inductive.                                             *)

LEMMA Numbers == MaxUses \in Nat \ {0} /\ PrimaryColumn \notin Settable /\ Assignable \subseteq Entities
BY ParametersAssumption DEF Settable

LEMMA Start == Init => ParametersInv
<1> SUFFICES ASSUME Init
             PROVE  ParametersInv
  OBVIOUS
<1>1. PICK columns \in SUBSET Settable :
        /\ marked = [e \in Entities |-> IF e \in Tracked THEN columns ELSE {}]
        /\ isDirty = [e \in Entities |-> marked[e] # {}]
        /\ unsent = marked
  BY DEF Init
<1>2. /\ marked \in [Entities -> SUBSET Settable]
      /\ unsent \in [Entities -> SUBSET Settable]
      /\ isDirty \in [Entities -> BOOLEAN]
  BY <1>1
<1>3. \A e \in Entities : unsent[e] = Rest(e)
  BY <1>1 DEF Rest
<1>4. Tracked \subseteq Entities
  BY ParametersAssumption
<1>5. TypeOK
  <2>1. /\ use \in {"query", "update", "delete"} /\ disposeCommand \in BOOLEAN
        /\ refused = FALSE /\ phase = "idle" /\ uses = 0 /\ parameterIndex = 0
        /\ parameters = <<>> /\ statement = <<>> /\ batch = <<>> /\ index = 0
    BY DEF Init
  <2>2. uses \in 0 .. MaxUses /\ parameterIndex \in Int /\ index \in 0 .. Len(batch)
    BY <2>1, Numbers
  <2>3. Len(statement) <= Len(parameters)
    BY <2>1
  <2>4. \A e \in Entities : marked[e] \cup unsent[e] \subseteq Settable /\ isDirty[e] \in BOOLEAN
    BY <1>2
  <2> QED
    BY <2>1, <2>2, <2>3, <2>4 DEF TypeOK
<1>6. <<>> \in Seq({})
  OBVIOUS
<1> QED
  BY <1>2, <1>3, <1>4, <1>5, <1>6 DEF Init, ParametersInv, IsSequence, PassedIsSaid, OthersAreMarked, Updating

(* Whoever does not update leaves the objects as they are.                 *)
LEMMA ObjectsStay ==
  ASSUME ParametersInv, UNCHANGED <<marked, isDirty, unsent, refused>>,
         ~Updating, ~Updating'
  PROVE  /\ marked' \in [Entities -> SUBSET Settable]
         /\ unsent' \in [Entities -> SUBSET Settable]
         /\ isDirty' \in [Entities -> BOOLEAN]
         /\ \A e \in Entities : marked'[e] \cup unsent'[e] \subseteq Settable /\ isDirty'[e] \in BOOLEAN
         /\ PassedIsSaid' /\ OthersAreMarked'
BY DEF ParametersInv, TypeOK, PassedIsSaid, OthersAreMarked, Rest

Appended(n, names, values) ==
  \A i \in 1 .. n :
    /\ statement'[Len(statement) + i] = Placeholder(Written(names[i]), values[i])
    /\ parameters'[Len(parameters) + i] = Parameter("@p" \o ToString(names[i]), values[i])

LEMMA Adding ==
  ASSUME ParametersInv, NEW n \in Nat, NEW names, names = [i \in 1 .. n |-> names[i]],
         NEW values, Add(names, values)
  PROVE  /\ IsSequence(parameters') /\ IsSequence(statement')
         /\ Len(statement') <= Len(parameters')
         /\ Len(statement) \in Nat /\ Len(statement') = Len(statement) + n
         /\ Len(parameters) \in Nat /\ Len(parameters') = Len(parameters) + n
         /\ DOMAIN statement = 1 .. Len(statement) /\ DOMAIN statement' = 1 .. Len(statement) + n
         /\ \A i \in 1 .. Len(statement) : statement'[i] = statement[i]
         /\ \A i \in 1 .. Len(parameters) : parameters'[i] = parameters[i]
         /\ Appended(n, names, values)
<1> DEFINE added == [i \in 1 .. n |-> Parameter("@p" \o ToString(names[i]), values[i])]
           said == [i \in 1 .. n |-> Placeholder(Written(names[i]), values[i])]
<1>1. DOMAIN names = 1 .. n
  OBVIOUS
<1>2. parameters' = parameters \o added /\ statement' = statement \o said
  BY <1>1 DEF Add
<1>3. PICK a : a = added
  OBVIOUS
<1>4. PICK b : b = said
  OBVIOUS
<1>5. a = [i \in 1 .. n |-> a[i]] /\ b = [i \in 1 .. n |-> b[i]]
  BY <1>3, <1>4
<1>6. IsSequence(a) /\ Len(a) = n /\ IsSequence(b) /\ Len(b) = n
  BY <1>5, Listed
<1>7. \A i \in 1 .. n : /\ a[i] = Parameter("@p" \o ToString(names[i]), values[i])
                        /\ b[i] = Placeholder(Written(names[i]), values[i])
  BY <1>3, <1>4
<1> HIDE DEF added, said
<1>8. PICK s : s = statement
  OBVIOUS
<1>9. PICK p : p = parameters
  OBVIOUS
<1>10. IsSequence(s) /\ IsSequence(p) /\ Len(s) <= Len(p)
  BY <1>8, <1>9 DEF ParametersInv, TypeOK
<1>11. PICK t : t = s \o b
  OBVIOUS
<1>12. PICK q : q = p \o a
  OBVIOUS
<1>13. statement' = t /\ parameters' = q
  BY <1>2, <1>3, <1>4, <1>8, <1>9, <1>11, <1>12
<1>14. Extended(t, s, b, n)
  BY <1>6, <1>10, <1>11, Lengthened, Zenon
<1>15. Extended(q, p, a, n)
  BY <1>6, <1>10, <1>12, Lengthened, Zenon
<1>16. Len(t) <= Len(q)
  BY <1>10, <1>14, <1>15 DEF Extended
<1>17. /\ \A i \in 1 .. n : t[Len(s) + i] = Placeholder(Written(names[i]), values[i])
       /\ \A i \in 1 .. n : q[Len(p) + i] = Parameter("@p" \o ToString(names[i]), values[i])
  BY <1>7, <1>14, <1>15, Zenon DEF Extended
<1> QED
  BY <1>8, <1>9, <1>13, <1>14, <1>15, <1>16, <1>17, Zenon DEF Extended, Appended

LEMMA KeepsHandleParameter == ParametersInv /\ HandleParameter => ParametersInv'
<1> SUFFICES ASSUME ParametersInv, HandleParameter
             PROVE  ParametersInv'
  OBVIOUS
<1>1. /\ use = "query" /\ uses = 0 /\ phase' = "building"
      /\ UNCHANGED <<use, disposeCommand, uses, batch, index, entityVars, refused>>
  BY DEF HandleParameter
<1>2. /\ \E n, names, values : n \in Nat /\ names = [i \in 1 .. n |-> names[i]] /\ Add(names, values)
      /\ parameterIndex' \in Int
  <2>1. parameterIndex \in Int
    BY DEF ParametersInv, TypeOK
  <2>2. CASE HandleValue
    <3>1. PICK names : names = <<parameterIndex>>
      OBVIOUS
    <3>2. names = [i \in 1 .. 1 |-> names[i]]
      BY <3>1
    <3>3. Add(names, NewArguments(1)) /\ parameterIndex' \in Int
      BY <2>1, <2>2, <3>1 DEF HandleValue
    <3> QED
      BY <3>2, <3>3
  <2>3. ASSUME NEW n \in ListSizes, HandleList(n)
        PROVE  /\ \E m, names, values : m \in Nat /\ names = [i \in 1 .. m |-> names[i]] /\ Add(names, values)
               /\ parameterIndex' \in Int
    <3>1. n \in Nat
      BY ParametersAssumption
    <3>2. PICK names : names = [i \in 1 .. n |-> parameterIndex + i - 1]
      OBVIOUS
    <3>3. names = [i \in 1 .. n |-> names[i]]
      BY <3>2
    <3>4. Add(names, NewArguments(n)) /\ parameterIndex' \in Int
      BY <2>1, <2>3, <3>1, <3>2 DEF HandleList
    <3> QED
      BY <3>1, <3>3, <3>4
  <2> QED
    BY <2>2, <2>3 DEF HandleParameter
<1>3. PICK n, names, values : n \in Nat /\ names = [i \in 1 .. n |-> names[i]] /\ Add(names, values)
  BY <1>2
<1>4. /\ IsSequence(parameters') /\ IsSequence(statement')
      /\ Len(statement') <= Len(parameters')
  BY <1>3, Adding
<1>5. ~Updating /\ ~Updating'
  BY <1>1 DEF Updating
<1>6. /\ marked' \in [Entities -> SUBSET Settable]
      /\ unsent' \in [Entities -> SUBSET Settable]
      /\ isDirty' \in [Entities -> BOOLEAN]
      /\ \A e \in Entities : marked'[e] \cup unsent'[e] \subseteq Settable /\ isDirty'[e] \in BOOLEAN
      /\ PassedIsSaid' /\ OthersAreMarked'
  BY <1>1, <1>5, ObjectsStay DEF entityVars
<1>7. uses' < MaxUses
  BY <1>1, Numbers
<1>8. TypeOK'
  BY <1>1, <1>2, <1>4, <1>6 DEF ParametersInv, TypeOK
<1> QED
  BY <1>4, <1>6, <1>7, <1>8 DEF ParametersInv

LEMMA KeepsAssign ==
  ASSUME ParametersInv, NEW e \in Assignable, NEW c \in Settable, Assign(e, c)
  PROVE  ParametersInv'
<1>1. /\ phase \in {"idle", "sent"} /\ MakeDirty(e, c)
      /\ unsent' = [unsent EXCEPT ![e] = @ \cup {c}]
      /\ UNCHANGED <<use, disposeCommand, uses, parameters, statement, parameterIndex, batch, index, phase, refused>>
  BY DEF Assign, commandVars
<1>2. e \in Entities
  BY Numbers
<1>3. /\ marked \in [Entities -> SUBSET Settable] /\ unsent \in [Entities -> SUBSET Settable]
      /\ isDirty \in [Entities -> BOOLEAN]
  BY DEF ParametersInv
<1>4. /\ marked' \in [Entities -> SUBSET Settable] /\ unsent' \in [Entities -> SUBSET Settable]
      /\ isDirty' \in [Entities -> BOOLEAN]
  BY <1>1, <1>2, <1>3 DEF MakeDirty
<1>5. unsent[e] = Rest(e) => unsent'[e] = Rest(e)'
  BY <1>1, <1>2, <1>3 DEF MakeDirty, Rest
<1>6. \A x \in Entities \ {e} : unsent'[x] = unsent[x] /\ Rest(x)' = Rest(x)
  BY <1>1, <1>2, <1>3 DEF MakeDirty, Rest
<1>7. ~Updating /\ ~Updating'
  BY <1>1 DEF Updating
<1>8. Tracked \subseteq Entities
  BY ParametersAssumption
<1>9. PassedIsSaid' /\ OthersAreMarked'
  BY <1>1, <1>5, <1>6, <1>7, <1>8 DEF ParametersInv, PassedIsSaid, OthersAreMarked
<1>10. TypeOK'
  BY <1>1, <1>4 DEF ParametersInv, TypeOK
<1> QED
  BY <1>1, <1>4, <1>9, <1>10 DEF ParametersInv

LEMMA KeepsStartUpdate == ParametersInv /\ StartUpdate => ParametersInv'
<1> SUFFICES ASSUME ParametersInv, StartUpdate
             PROVE  ParametersInv'
  OBVIOUS
<1>1. /\ phase \in {"idle", "sent"} /\ uses < MaxUses /\ phase' = "building"
      /\ batch' \in Batches /\ index' = 0 /\ statement' = <<>>
      /\ UNCHANGED <<use, disposeCommand, uses, parameters, parameterIndex, marked, isDirty, unsent, refused>>
  BY DEF StartUpdate, MayStart, entityVars
<1>2. IsSequence(statement') /\ Len(statement') = 0 /\ DOMAIN statement' = {}
  <2>1. <<>> \in Seq({}) /\ Len(<<>>) = 0 /\ DOMAIN <<>> = {}
    OBVIOUS
  <2> QED
    BY <1>1, <2>1 DEF IsSequence
<1>3. Len(parameters') \in Nat
  <2>1. PICK S : parameters \in Seq(S)
    BY DEF ParametersInv, IsSequence
  <2> QED
    BY <1>1, <2>1, LenProperties
<1>4. Len(batch') \in Nat
  BY <1>1, ParametersAssumption, LenProperties
<1>5. TypeOK'
  BY <1>1, <1>2, <1>3, <1>4 DEF ParametersInv, TypeOK
<1>6. \A e : ~Passed(e)'
  BY <1>1 DEF Passed
<1>7. PassedIsSaid'
  BY <1>2, <1>6 DEF PassedIsSaid
<1>8. OthersAreMarked'
  BY <1>1 DEF ParametersInv, OthersAreMarked, Updating, Rest
<1> QED
  BY <1>1, <1>2, <1>5, <1>7, <1>8 DEF ParametersInv

(* The object whose turn it is was not passed before, so nothing was said  *)
(* of it.                                                                  *)
LEMMA NextObject ==
  ASSUME ParametersInv, Updating, index < Len(batch)
  PROVE  /\ index \in Nat /\ Len(batch) \in Nat /\ batch[index + 1] \in Entities
         /\ ~Passed(batch[index + 1]) /\ SetColumns(batch[index + 1]) = {}
<1>1. batch \in Batches \cup {<<>>} /\ index \in 0 .. Len(batch)
  BY DEF ParametersInv, TypeOK
<1>2. batch \in Seq(Entities) /\ IsInjective(batch)
  <2>1. Len(<<>>) = 0
    OBVIOUS
  <2>2. batch \in Batches
    BY <1>1, <2>1
  <2> QED
    BY <2>2, ParametersAssumption
<1>3. Len(batch) \in Nat /\ DOMAIN batch = 1 .. Len(batch)
  BY <1>2, LenProperties
<1>4. index \in Nat /\ index + 1 \in DOMAIN batch
  BY <1>1, <1>3
<1>5. batch[index + 1] \in Entities
  BY <1>2, <1>3, <1>4, ElementOfSeq
<1>6. ~Passed(batch[index + 1])
  <2> SUFFICES ASSUME NEW k \in 1 .. index, batch[k] = batch[index + 1]
               PROVE  FALSE
    BY DEF Passed
  <2>1. k \in DOMAIN batch /\ k # index + 1
    BY <1>3, <1>4
  <2> QED
    BY <1>2, <1>4, <2>1 DEF IsInjective
<1>7. \A i \in DOMAIN statement : statement[i].meant[1] # batch[index + 1]
  BY <1>6 DEF ParametersInv, PassedIsSaid
<1>8. SetColumns(batch[index + 1]) = {}
  BY <1>7 DEF SetColumns
<1> QED
  BY <1>3, <1>4, <1>5, <1>6, <1>8

(* Only the object whose turn it is has been passed in addition.           *)
LEMMA PassedThen ==
  ASSUME index \in Nat, index' = index + 1, batch' = batch
  PROVE  \A x : Passed(x)' <=> (Passed(x) \/ x = batch[index + 1])
BY DEF Passed

LEMMA KeepsBaseUpdate == ParametersInv /\ BaseUpdate => ParametersInv'
<1> SUFFICES ASSUME ParametersInv, BaseUpdate
             PROVE  ParametersInv'
  OBVIOUS
<1>1. PICK e : e = batch[index + 1]
  OBVIOUS
<1>2. /\ Updating /\ use = "update" /\ phase = "building" /\ index < Len(batch)
      /\ UNCHANGED <<use, disposeCommand, uses, parameterIndex, batch, marked, unsent>>
  BY DEF BaseUpdate, Updating
<1>3. /\ index \in Nat /\ Len(batch) \in Nat /\ e \in Entities
      /\ ~Passed(e) /\ SetColumns(e) = {}
  BY <1>1, <1>2, NextObject
<1>4. /\ TypeOK /\ IsSequence(parameters) /\ IsSequence(statement)
      /\ marked \in [Entities -> SUBSET Settable] /\ unsent \in [Entities -> SUBSET Settable]
      /\ isDirty \in [Entities -> BOOLEAN] /\ uses < MaxUses
  BY <1>2 DEF ParametersInv
<1>5. Tracked \subseteq Entities
  BY ParametersAssumption
<1>6. CASE e \notin Tracked
  <2>1. /\ phase' = "idle" /\ refused' = TRUE
        /\ UNCHANGED <<index, parameters, statement, isDirty>>
    BY <1>1, <1>6 DEF BaseUpdate
  <2>2. PassedIsSaid' /\ OthersAreMarked'
    BY <2>1 DEF PassedIsSaid, OthersAreMarked, Updating
  <2>3. TypeOK'
    BY <1>2, <1>4, <2>1 DEF TypeOK
  <2> QED
    BY <1>2, <1>4, <2>1, <2>2, <2>3 DEF ParametersInv
<1>7. CASE e \in Tracked
  <2>1. /\ index' = index + 1 /\ UNCHANGED <<phase, refused>>
        /\ IF isDirty[e]
           THEN /\ parameters' = parameters \o Retrieved(e, index)
                /\ statement' = statement \o Names(Retrieved(e, index))
                /\ isDirty' = [isDirty EXCEPT ![e] = FALSE]
           ELSE UNCHANGED <<parameters, statement, isDirty>>
    BY <1>1, <1>7 DEF BaseUpdate
  <2>2. \A x : Passed(x)' <=> (Passed(x) \/ x = e)
    BY <1>1, <1>2, <1>3, <2>1, PassedThen
  <2>3. /\ Updating' /\ index' \in 0 .. Len(batch') /\ uses' < MaxUses
        /\ isDirty' \in [Entities -> BOOLEAN] /\ ~isDirty'[e]
        /\ \A x \in Entities \ {e} : Rest(x)' = Rest(x) /\ isDirty'[x] = isDirty[x]
    <3>1. Updating' /\ index' \in 0 .. Len(batch') /\ uses' < MaxUses
      BY <1>2, <1>3, <1>4, <2>1 DEF Updating
    <3>2. isDirty' = [isDirty EXCEPT ![e] = FALSE]
      <4>1. CASE isDirty[e]
        BY <2>1, <4>1
      <4>2. CASE ~isDirty[e]
        <5>1. isDirty' = isDirty /\ isDirty[e] = FALSE
          BY <1>3, <1>4, <2>1, <4>2
        <5> QED
          BY <1>3, <1>4, <5>1
      <4> QED
        BY <4>1, <4>2
    <3>3. isDirty' \in [Entities -> BOOLEAN] /\ ~isDirty'[e]
      BY <1>3, <1>4, <3>2
    <3>4. \A x \in Entities \ {e} : isDirty'[x] = isDirty[x]
      BY <1>4, <3>2
    <3>5. \A x \in Entities \ {e} : Rest(x)' = Rest(x)
      BY <1>2, <3>4 DEF Rest
    <3> QED
      BY <3>1, <3>3, <3>4, <3>5
  <2>4. ~refused => unsent[e] = Rest(e)
    BY <1>2, <1>3, <1>7 DEF ParametersInv, OthersAreMarked
  <2>5. /\ IsSequence(parameters') /\ IsSequence(statement') /\ Len(statement') <= Len(parameters')
        /\ (\A i \in DOMAIN statement : Passed(statement[i].meant[1]))'
        /\ SetColumns(e)' = Rest(e)
        /\ \A x : x # e => SetColumns(x)' = SetColumns(x)
    <3>1. CASE ~isDirty[e]
      <4>1. UNCHANGED <<parameters, statement>>
        BY <2>1, <3>1
      <4>2. \A x : SetColumns(x)' = SetColumns(x)
        BY <4>1 DEF SetColumns
      <4>3. \A i \in DOMAIN statement : Passed(statement[i].meant[1])
        BY <1>2 DEF ParametersInv, PassedIsSaid
      <4>4. Rest(e) = {}
        BY <3>1 DEF Rest
      <4>5. (\A i \in DOMAIN statement : Passed(statement[i].meant[1]))'
        BY <2>2, <4>1, <4>3
      <4> QED
        BY <1>3, <1>4, <4>1, <4>2, <4>4, <4>5 DEF TypeOK
    <3>2. CASE isDirty[e]
      <4>1. PICK r : r = Retrieved(e, index)
        OBVIOUS
      <4>2. /\ IsSequence(r) /\ Len(r) \in Nat
            /\ \A j \in 1 .. Len(r) : r[j].value[1] = e /\ r[j].value[2] \in marked[e] \cup {PrimaryColumn}
            /\ \A c \in marked[e] : \E j \in 1 .. Len(r) : r[j].value[2] = c
        BY <1>3, <4>1, RetrievedColumns
      <4>3. PICK m : m = Names(r)
        OBVIOUS
      <4>4. /\ IsSequence(m) /\ Len(m) = Len(r)
            /\ \A j \in 1 .. Len(r) : m[j].meant = r[j].value
        BY <4>2, <4>3, NamesOf
      <4>5. PICK s : s = statement
        OBVIOUS
      <4>6. PICK p : p = parameters
        OBVIOUS
      <4>7. IsSequence(s) /\ IsSequence(p) /\ Len(s) <= Len(p)
        BY <1>4, <4>5, <4>6 DEF TypeOK
      <4>8. PICK t : t = s \o m
        OBVIOUS
      <4>9. PICK q : q = p \o r
        OBVIOUS
      <4>10. /\ IsSequence(t) /\ Len(s) \in Nat /\ Len(t) = Len(s) + Len(r)
             /\ DOMAIN s = 1 .. Len(s) /\ DOMAIN t = 1 .. Len(s) + Len(r)
             /\ \A i \in 1 .. Len(s) : t[i] = s[i]
             /\ \A i \in 1 .. Len(r) : t[Len(s) + i] = m[i]
        <5>1. IsSequence(s) /\ IsSequence(m)
          BY <4>4, <4>7
        <5>2. /\ IsSequence(t) /\ Len(s) \in Nat /\ Len(t) = Len(s) + Len(m)
              /\ DOMAIN s = 1 .. Len(s) /\ DOMAIN t = 1 .. Len(s) + Len(m)
              /\ \A i \in 1 .. Len(s) : t[i] = s[i]
              /\ \A i \in 1 .. Len(m) : t[Len(s) + i] = m[i]
          BY <4>8, <5>1, Joint
        <5> QED
          BY <4>4, <5>2
      <4>11. IsSequence(q) /\ Len(q) = Len(p) + Len(r) /\ Len(p) \in Nat
        BY <4>2, <4>7, <4>9, Joint
      <4>12. statement' = t /\ parameters' = q
        BY <2>1, <3>2, <4>1, <4>3, <4>5, <4>6, <4>8, <4>9
      <4>13. \A i \in DOMAIN t :
               \/ i \in DOMAIN s /\ t[i] = s[i]
               \/ \E j \in 1 .. Len(r) : t[i].meant = r[j].value
        <5> SUFFICES ASSUME NEW i \in DOMAIN t, i \notin DOMAIN s
                     PROVE  \E j \in 1 .. Len(r) : t[i].meant = r[j].value
          BY <4>10
        <5>1. PICK j : j = i - Len(s)
          OBVIOUS
        <5>2. j \in 1 .. Len(r) /\ i = Len(s) + j
          BY <4>2, <4>10, <5>1
        <5> QED
          BY <4>4, <4>10, <5>2
      <4>14. \A i \in DOMAIN s : Passed(s[i].meant[1]) /\ s[i].meant[1] # e
        BY <1>2, <1>3, <4>5 DEF ParametersInv, PassedIsSaid
      <4>15. \A i \in DOMAIN t : Passed(t[i].meant[1])'
        BY <2>2, <4>2, <4>13, <4>14
      <4>16. \A c \in marked[e] : \E i \in DOMAIN t : t[i].meant[1] = e /\ t[i].meant[2] = c
        <5> SUFFICES ASSUME NEW c \in marked[e]
                     PROVE  \E i \in DOMAIN t : t[i].meant[1] = e /\ t[i].meant[2] = c
          OBVIOUS
        <5>1. PICK j \in 1 .. Len(r) : r[j].value[2] = c
          BY <4>2
        <5>2. Len(s) + j \in DOMAIN t /\ t[Len(s) + j].meant = r[j].value
          BY <4>2, <4>4, <4>10, <5>1
        <5> QED
          BY <4>2, <5>1, <5>2
      <4>17. \A i \in DOMAIN t : t[i].meant[1] = e => t[i].meant[2] \in marked[e] \cup {PrimaryColumn}
        BY <4>2, <4>13, <4>14
      <4>18. SetColumns(e)' = marked[e]
        <5>1. marked[e] \subseteq Settable
          BY <1>3, <1>4
        <5>2. SetColumns(e)' =
                {t[i].meant[2] : i \in {j \in DOMAIN t : t[j].meant[1] = e}} \ {PrimaryColumn}
          BY <4>12 DEF SetColumns
        <5> QED
          BY <4>16, <4>17, <5>1, <5>2, Numbers
      <4>19. ASSUME NEW x, x # e
             PROVE  SetColumns(x)' = SetColumns(x)
        <5>1. \A i \in DOMAIN t : t[i].meant[1] = x => i \in DOMAIN s
          BY <4>2, <4>13, <4>19
        <5>2. {j \in DOMAIN t : t[j].meant[1] = x} = {j \in DOMAIN s : s[j].meant[1] = x}
          BY <4>10, <5>1
        <5>3. \A j \in DOMAIN s : t[j] = s[j]
          BY <4>10
        <5>4. {t[i].meant[2] : i \in {j \in DOMAIN t : t[j].meant[1] = x}}
                = {s[i].meant[2] : i \in {j \in DOMAIN s : s[j].meant[1] = x}}
          BY <5>2, <5>3
        <5>5. SetColumns(x)' =
                {t[i].meant[2] : i \in {j \in DOMAIN t : t[j].meant[1] = x}} \ {PrimaryColumn}
          BY <4>12 DEF SetColumns
        <5>6. SetColumns(x) =
                {s[i].meant[2] : i \in {j \in DOMAIN s : s[j].meant[1] = x}} \ {PrimaryColumn}
          BY <4>5 DEF SetColumns
        <5> QED
          BY <5>4, <5>5, <5>6
      <4>20. Rest(e) = marked[e]
        BY <3>2 DEF Rest
      <4>21. Len(t) <= Len(q)
        BY <4>2, <4>7, <4>10, <4>11
      <4>22. (\A i \in DOMAIN statement : Passed(statement[i].meant[1]))'
        BY <4>12, <4>15
      <4> QED
        BY <4>10, <4>11, <4>12, <4>18, <4>19, <4>20, <4>21, <4>22
    <3> QED
      BY <1>3, <1>4, <3>1, <3>2
  <2>6. PassedIsSaid'
    <3>1. \A x \in Tracked : Passed(x)' /\ ~refused' => ~isDirty'[x] /\ unsent'[x] = SetColumns(x)'
      <4> SUFFICES ASSUME NEW x \in Tracked, Passed(x)', ~refused'
                   PROVE  ~isDirty'[x] /\ unsent'[x] = SetColumns(x)'
        OBVIOUS
      <4>1. CASE x = e
        BY <1>2, <2>1, <2>3, <2>4, <2>5, <4>1
      <4>2. CASE x # e
        <5>1. ~isDirty[x] /\ unsent[x] = SetColumns(x)
          BY <1>2, <2>1, <2>2, <4>2 DEF ParametersInv, PassedIsSaid
        <5> QED
          BY <1>2, <1>5, <2>3, <2>5, <4>2, <5>1
      <4> QED
        BY <4>1, <4>2
    <3> QED
      BY <2>5, <3>1 DEF PassedIsSaid
  <2>7. OthersAreMarked'
    <3> SUFFICES ASSUME ~refused', NEW x \in Tracked, ~(Updating' /\ Passed(x)')
                 PROVE  unsent'[x] = Rest(x)'
      BY DEF OthersAreMarked
    <3>1. x # e /\ ~Passed(x)
      BY <2>2, <2>3
    <3>2. unsent[x] = Rest(x)
      BY <2>1, <3>1 DEF ParametersInv, OthersAreMarked
    <3> QED
      BY <1>2, <1>5, <2>3, <3>1, <3>2
  <2>8. TypeOK'
    BY <1>2, <1>4, <2>1, <2>3, <2>5 DEF TypeOK
  <2> QED
    BY <1>2, <1>4, <2>3, <2>5, <2>6, <2>7, <2>8 DEF ParametersInv
<1> QED
  BY <1>6, <1>7

LEMMA KeepsBuildDelete == ParametersInv /\ BuildDelete => ParametersInv'
<1> SUFFICES ASSUME ParametersInv, BuildDelete
             PROVE  ParametersInv'
  OBVIOUS
<1>1. PICK objects \in Batches, forwards \in BOOLEAN :
        /\ parameters' = parameters \o DeleteParameters(objects, forwards)
        /\ statement' = Names(DeleteParameters(objects, forwards))
  BY DEF BuildDelete
<1>2. /\ use = "delete" /\ uses < MaxUses /\ phase' = "building"
      /\ UNCHANGED <<use, disposeCommand, uses, parameterIndex, batch, index, marked, isDirty, unsent, refused>>
  BY DEF BuildDelete, MayStart, entityVars
<1>3. PICK d : d = DeleteParameters(objects, forwards)
  OBVIOUS
<1>4. IsSequence(d)
  BY <1>3, DeletesAreNumbered, Zenon
<1>5. PICK m : m = Names(d)
  OBVIOUS
<1>6. IsSequence(m) /\ Len(m) = Len(d) /\ Len(d) \in Nat
  BY <1>4, <1>5, NamesOf
<1>7. PICK p : p = parameters
  OBVIOUS
<1>8. IsSequence(p)
  BY <1>7 DEF ParametersInv
<1>9. IsSequence(p \o d) /\ Len(p \o d) = Len(p) + Len(d) /\ Len(p) \in Nat
  BY <1>4, <1>8, Joint
<1>10. parameters' = p \o d /\ statement' = m
  BY <1>1, <1>3, <1>5, <1>7
<1>11. /\ IsSequence(parameters') /\ IsSequence(statement')
       /\ Len(statement') <= Len(parameters')
  BY <1>6, <1>9, <1>10
<1>12. ~Updating /\ ~Updating'
  BY <1>2 DEF Updating
<1>13. /\ marked' \in [Entities -> SUBSET Settable]
       /\ unsent' \in [Entities -> SUBSET Settable]
       /\ isDirty' \in [Entities -> BOOLEAN]
       /\ \A e \in Entities : marked'[e] \cup unsent'[e] \subseteq Settable /\ isDirty'[e] \in BOOLEAN
       /\ PassedIsSaid' /\ OthersAreMarked'
  BY <1>2, <1>12, ObjectsStay
<1>14. TypeOK'
  BY <1>2, <1>11, <1>13 DEF ParametersInv, TypeOK
<1> QED
  BY <1>2, <1>11, <1>13, <1>14 DEF ParametersInv

(* What an update that ends has said of the objects it has passed is what  *)
(* was not sent, and of the others it has said nothing.                    *)
LEMMA KeepsExecute == ParametersInv /\ Execute => ParametersInv'
<1> SUFFICES ASSUME ParametersInv, Execute
             PROVE  ParametersInv'
  OBVIOUS
<1>1. /\ phase = "building" \/ (phase = "sent" /\ use = "query" /\ uses < MaxUses)
      /\ phase' \in {"sent", "disposed"} /\ uses' = uses + 1
      /\ unsent' = [e \in Entities |-> IF use = "update" THEN unsent[e] \ SetColumns(e) ELSE unsent[e]]
      /\ UNCHANGED <<use, disposeCommand, parameters, statement, parameterIndex, batch, index, marked, isDirty, refused>>
  BY DEF Execute
<1>2. /\ TypeOK /\ uses < MaxUses
      /\ marked \in [Entities -> SUBSET Settable] /\ unsent \in [Entities -> SUBSET Settable]
      /\ isDirty \in [Entities -> BOOLEAN]
  BY <1>1 DEF ParametersInv
<1>3. uses' \in 0 .. MaxUses
  BY <1>1, <1>2, Numbers DEF TypeOK
<1>4. unsent' \in [Entities -> SUBSET Settable]
  BY <1>1, <1>2
<1>5. TypeOK'
  BY <1>1, <1>2, <1>3, <1>4 DEF TypeOK
<1>6. ~Updating'
  BY <1>1 DEF Updating
<1>7. OthersAreMarked'
  <2> SUFFICES ASSUME ~refused', NEW e \in Tracked
               PROVE  unsent'[e] = Rest(e)'
    BY DEF OthersAreMarked
  <2>1. e \in Entities /\ Rest(e)' = Rest(e) /\ ~refused
    BY <1>1, ParametersAssumption DEF Rest
  <2>2. CASE ~Updating
    <3>1. use # "update"
      BY <1>1, <2>2 DEF Updating
    <3>2. unsent[e] = Rest(e)
      BY <2>1, <2>2 DEF ParametersInv, OthersAreMarked
    <3> QED
      BY <1>1, <2>1, <3>1, <3>2
  <2>3. CASE Updating /\ Passed(e)
    <3>1. ~isDirty[e] /\ unsent[e] = SetColumns(e)
      BY <2>1, <2>3 DEF ParametersInv, PassedIsSaid
    <3>2. Rest(e) = {}
      BY <3>1 DEF Rest
    <3> QED
      BY <1>1, <2>1, <2>3, <3>1, <3>2 DEF Updating
  <2>4. CASE Updating /\ ~Passed(e)
    <3>1. unsent[e] = Rest(e)
      BY <2>1, <2>4 DEF ParametersInv, OthersAreMarked
    <3>2. \A i \in DOMAIN statement : statement[i].meant[1] # e
      BY <2>4 DEF ParametersInv, PassedIsSaid
    <3>3. SetColumns(e) = {}
      BY <3>2 DEF SetColumns
    <3> QED
      BY <1>1, <2>1, <2>4, <3>1, <3>3 DEF Updating
  <2> QED
    BY <2>2, <2>3, <2>4
<1> QED
  BY <1>1, <1>2, <1>4, <1>5, <1>6, <1>7 DEF ParametersInv, PassedIsSaid

LEMMA KeepsNothingToUpdate == ParametersInv /\ NothingToUpdate => ParametersInv'
<1> SUFFICES ASSUME ParametersInv, NothingToUpdate
             PROVE  ParametersInv'
  OBVIOUS
<1>1. /\ Updating /\ phase' = "idle" /\ statement = <<>>
      /\ UNCHANGED <<use, disposeCommand, uses, parameters, statement, parameterIndex, batch, index,
                     marked, isDirty, unsent, refused>>
  BY DEF NothingToUpdate, Updating, commandVars, entityVars
<1>2. ~Updating'
  BY <1>1 DEF Updating
<1>3. DOMAIN statement = {}
  BY <1>1
<1>4. \A e : SetColumns(e) = {}
  BY <1>3 DEF SetColumns
<1>5. OthersAreMarked'
  <2> SUFFICES ASSUME ~refused', NEW e \in Tracked
               PROVE  unsent'[e] = Rest(e)'
    BY DEF OthersAreMarked
  <2>1. unsent[e] = Rest(e)
    <3>1. CASE Passed(e)
      BY <1>1, <1>4, <3>1 DEF ParametersInv, PassedIsSaid, Rest
    <3>2. CASE ~Passed(e)
      BY <1>1, <3>2 DEF ParametersInv, OthersAreMarked
    <3> QED
      BY <3>1, <3>2
  <2> QED
    BY <1>1, <2>1 DEF Rest
<1>6. TypeOK'
  BY <1>1 DEF ParametersInv, TypeOK
<1> QED
  BY <1>1, <1>2, <1>5, <1>6 DEF ParametersInv, PassedIsSaid

LEMMA KeepsUnchanged == ParametersInv /\ UNCHANGED vars => ParametersInv'
<1> SUFFICES ASSUME ParametersInv, UNCHANGED vars
             PROVE  ParametersInv'
  OBVIOUS
<1>1. UNCHANGED <<use, disposeCommand, uses, parameters, statement, parameterIndex, arguments, batch,
                  index, phase, entity, marked, isDirty, unsent, refused>>
  BY DEF vars, commandVars, entityVars
<1>2. TypeOK'
  BY <1>1 DEF ParametersInv, TypeOK
<1>3. PassedIsSaid'
  BY <1>1 DEF ParametersInv, PassedIsSaid, Updating, Passed, SetColumns
<1>4. OthersAreMarked'
  BY <1>1 DEF ParametersInv, OthersAreMarked, Updating, Passed, Rest
<1> QED
  BY <1>1, <1>2, <1>3, <1>4 DEF ParametersInv

(* The inductive invariant of a command: what no execution has had of an   *)
(* object is marked in it or, while an update is built, said in the        *)
(* statement.                                                              *)
THEOREM ParametersInvariance == Spec => []ParametersInv
<1>1. ParametersInv /\ [Next]_vars => ParametersInv'
  BY KeepsHandleParameter, KeepsAssign, KeepsStartUpdate, KeepsBaseUpdate, KeepsBuildDelete,
     KeepsExecute, KeepsNothingToUpdate, KeepsUnchanged DEF Next
<1> QED
  BY <1>1, Start, PTL DEF Spec

(* No assignment is forgotten: whatever objects are given to updates, in   *)
(* whatever batches and however often, between two of them the changes     *)
(* that were not sent are marked, and only those.                          *)
THEOREM NoChangeIsForgotten == Spec => []ChangesAreKept
<1>1. ParametersInv => ChangesAreKept
  BY DEF ParametersInv, OthersAreMarked, ChangesAreKept, Updating, Rest
<1> QED
  BY <1>1, ParametersInvariance, PTL

-----------------------------------------------------------------------------
(* What is meant by a name.                                                *)

(* The least of a set of numbers.                                          *)
LEMMA LeastElement ==
  ASSUME NEW S \in SUBSET Nat, S # {}
  PROVE  Min(S) \in S /\ \A y \in S : Min(S) <= y
<1> DEFINE T == {0 .. x : x \in S}
<1>1. T \subseteq FiniteSubsetsOf(Nat)
  <2> SUFFICES ASSUME NEW x \in S
               PROVE  0 .. x \in FiniteSubsetsOf(Nat)
    OBVIOUS
  <2>1. 0 \in Int /\ x \in Int
    OBVIOUS
  <2>2. IsFiniteSet(0 .. x)
    BY <2>1, FS_Interval
  <2>3. 0 .. x \in SUBSET Nat
    OBVIOUS
  <2> QED
    BY <2>2, <2>3 DEF FiniteSubsetsOf
<1>2. IsWellFoundedOn(StrictSubsetOrdering(Nat), FiniteSubsetsOf(Nat))
  BY FS_StrictSubsetOrderingWellFounded
<1>3. T # {}
  OBVIOUS
<1> HIDE DEF T
<1>4. PICK U \in T : \A V \in T : ~(<<V, U>> \in StrictSubsetOrdering(Nat))
  BY <1>1, <1>2, <1>3, WFMin, Zenon
<1> USE DEF T
<1>5. PICK x \in S : U = 0 .. x
  BY <1>4
<1>6. ASSUME NEW y \in S
      PROVE  x <= y
  <2> SUFFICES ASSUME y < x
               PROVE  FALSE
    OBVIOUS
  <2>1. (0 .. y) \in T /\ 0 .. y \subseteq 0 .. x /\ x \in 0 .. x /\ x \notin 0 .. y
    OBVIOUS
  <2>2. <<0 .. y, U>> \in StrictSubsetOrdering(Nat)
    BY <1>5, <2>1 DEF StrictSubsetOrdering
  <2> QED
    BY <1>4, <2>1, <2>2
<1> QED
  BY <1>6 DEF Min

(* Where no two places of the same name mean different values, it does not *)
(* matter that the server takes the first parameter of a name.             *)
LEMMA SentIsMeant ==
  ASSUME IsSequence(parameters), Corresponds, OneMeaning
  PROVE  SentAsMeant
<1> SUFFICES ASSUME NEW i \in DOMAIN statement
             PROVE  Bound(statement[i]) = statement[i].meant
  BY DEF SentAsMeant
<1>1. PICK I : I = {k \in 1 .. Len(parameters) : parameters[k].name = statement[i].name}
  OBVIOUS
<1>2. PICK S : parameters \in Seq(S)
  BY DEF IsSequence
<1>3. Len(parameters) \in Nat /\ DOMAIN parameters = 1 .. Len(parameters)
  BY <1>2, LenProperties
<1>4. DOMAIN statement = 1 .. Len(parameters)
  BY <1>3 DEF Corresponds
<1>5. I \in SUBSET Nat /\ i \in I
  BY <1>1, <1>3, <1>4 DEF Corresponds
<1>6. PICK m : m = Min(I)
  OBVIOUS
<1>7. m \in I /\ I # {} /\ m # 0
  <2>1. I # {}
    BY <1>5
  <2>2. m \in I
    BY <1>5, <1>6, <2>1, LeastElement, Zenon
  <2> QED
    BY <1>1, <1>3, <2>1, <2>2
<1>8. SelectInSeq(parameters, LAMBDA p : p.name = statement[i].name) = m
  BY <1>1, <1>6, <1>7 DEF SelectInSeq
<1>9. Bound(statement[i]) = parameters[m].value
  BY <1>7, <1>8 DEF Bound
<1>10. m \in DOMAIN statement /\ parameters[m].name = statement[i].name
  BY <1>1, <1>4, <1>7
<1> QED
  BY <1>9, <1>10 DEF Corresponds, OneMeaning

-----------------------------------------------------------------------------
(* Names that are made of texts and numbers.                               *)

(* The parts of a name may be joined in any order.                         *)
Associates(s, t, u) == (s \o t) \o u = s \o (t \o u)

LEMMA Joined ==
  ASSUME TextLaws(STRING), NEW s \in STRING, NEW t \in STRING, NEW u \in STRING
  PROVE  Associates(s, t, u)
<1>1. \A v, w, x \in STRING : (v \o w) \o x = v \o (w \o x)
  BY Zenon DEF TextLaws
<1> QED
  BY <1>1, Zenon DEF Associates

LEMMA JoinedEqually ==
  ASSUME TextLaws(STRING), NEW s \in STRING, NEW t \in STRING, NEW u \in STRING, s \o t = s \o u
  PROVE  t = u
BY Zenon DEF TextLaws

LEMMA NumbersDiffer ==
  ASSUME TextLaws(STRING), NumberLaws(Nat), NEW c \in STRING, NEW i \in Nat, NEW j \in Nat,
         c \o ToString(i) = c \o ToString(j)
  PROVE  i = j
<1>1. PICK s : s = ToString(i)
  OBVIOUS
<1>2. PICK t : t = ToString(j)
  OBVIOUS
<1>3. s \in STRING /\ t \in STRING
  BY <1>1, <1>2, Zenon DEF NumberLaws
<1>4. c \o s = c \o t
  BY <1>1, <1>2, Zenon
<1>5. s = t
  BY <1>3, <1>4, JoinedEqually, Zenon
<1> QED
  BY <1>1, <1>2, <1>5, Zenon DEF NumberLaws

LEMMA NumberedMeansOne ==
  ASSUME TextLaws(STRING), NumberLaws(Nat), IsSequence(statement), Numbered
  PROVE  OneMeaning
<1> SUFFICES ASSUME NEW i \in DOMAIN statement, NEW j \in DOMAIN statement,
                    statement[i].name = statement[j].name
             PROVE  i = j
  BY DEF OneMeaning
<1>1. PICK S : statement \in Seq(S)
  BY DEF IsSequence
<1>2. Len(statement) \in Nat /\ DOMAIN statement = 1 .. Len(statement)
  BY <1>1, LenProperties
<1>3. PICK m : m = i - 1
  OBVIOUS
<1>4. PICK n : n = j - 1
  OBVIOUS
<1>5. m \in Nat /\ n \in Nat
  BY <1>2, <1>3, <1>4
<1>6. "@p" \o ToString(m) = "@p" \o ToString(n)
  BY <1>3, <1>4, Zenon DEF Numbered
<1>7. "@p" \in STRING
  BY Zenon DEF TextLaws
<1>8. m = n
  BY <1>5, <1>6, <1>7, NumbersDiffer, Zenon
<1> QED
  BY <1>2, <1>3, <1>4, <1>8

(* If no column is named like another one with a number behind it, the     *)
(* name tells the object and the column.                                   *)
NamesTell(c, k, d, l) == c = d /\ k = l

LEMMA NamesTellObjects ==
  ASSUME TextLaws(STRING), NumberLaws(Nat), NEW n, NEW used, Unambiguous(used, n), n \in Nat,
         NEW c \in Columns, NEW d \in Columns,
         c # PrimaryColumn => c \in used, d # PrimaryColumn => d \in used,
         NEW k \in 1 .. n, NEW l \in 1 .. n,
         Name(c, k - 1) = Name(d, l - 1)
  PROVE  NamesTell(c, k, d, l)
<1>1. PICK i : i = k - 1
  OBVIOUS
<1>2. PICK j : j = l - 1
  OBVIOUS
<1>3. i \in Nat /\ j \in Nat /\ i \in 0 .. n - 1 /\ j \in 0 .. n - 1
  BY <1>1, <1>2
<1>4. PICK s : s = ToString(i)
  OBVIOUS
<1>5. PICK t : t = ToString(j)
  OBVIOUS
<1>6. s \in STRING /\ t \in STRING
  BY <1>3, <1>4, <1>5, Zenon DEF NumberLaws
<1>7. "PK" \in STRING
  BY Zenon DEF TextLaws
<1>8. c \in STRING /\ d \in STRING /\ PrimaryColumn \in STRING
  BY ParametersAssumption
<1>9. s \in STRING /\ t \in STRING /\ "PK" \in STRING /\ c \in STRING /\ d \in STRING /\ PrimaryColumn \in STRING
  BY <1>6, <1>7, <1>8
<1>10. PICK ks : ks = "PK" \o s
  OBVIOUS
<1>11. PICK kt : kt = "PK" \o t
  OBVIOUS
<1>12. ks \in STRING /\ kt \in STRING
  BY <1>9, <1>10, <1>11, Zenon DEF TextLaws
<1>13. PICK x : x = Suffix(c, i)
  OBVIOUS
<1>14. PICK y : y = Suffix(d, j)
  OBVIOUS
<1>15. /\ x = IF c = PrimaryColumn THEN ks ELSE s
       /\ y = IF d = PrimaryColumn THEN kt ELSE t
  BY <1>4, <1>5, <1>10, <1>11, <1>13, <1>14 DEF Suffix
<1>16. PICK p : p = "@p"
  OBVIOUS
<1>17. p \in STRING
  BY <1>16, Zenon DEF TextLaws
<1>18. (p \o c) \o x = (p \o d) \o y
  BY <1>1, <1>2, <1>13, <1>14, <1>16, Zenon DEF Name
<1>19. x \in STRING /\ y \in STRING
  BY <1>9, <1>12, <1>15
<1>20. c \o x = d \o y
  <2>1. Associates(p, c, x)
    BY <1>8, <1>17, <1>19, Joined, Zenon
  <2>2. Associates(p, d, y)
    BY <1>8, <1>17, <1>19, Joined, Zenon
  <2>3. p \o (c \o x) = p \o (d \o y)
    BY <1>18, <2>1, <2>2, Zenon DEF Associates
  <2>4. c \o x \in STRING /\ d \o y \in STRING
    BY <1>8, <1>19, Zenon DEF TextLaws
  <2> QED
    BY <1>17, <2>3, <2>4, JoinedEqually, Zenon
<1>21. /\ \A a \in used : a \o s # PrimaryColumn \o "PK" \o t
       /\ \A a \in used : a \o t # PrimaryColumn \o "PK" \o s
       /\ \A a, b \in used : a # b => a \o s # b \o t
  <2>1. PICK numbers : numbers = {ToString(a) : a \in 0 .. n - 1}
    OBVIOUS
  <2>2. s \in numbers /\ t \in numbers
    BY <1>3, <1>4, <1>5, <2>1, Zenon
  <2>3. \A a, b \in used, v, w \in numbers :
          (a # b => a \o v # b \o w) /\ a \o v # PrimaryColumn \o "PK" \o w
    BY <2>1, Zenon DEF Unambiguous
  <2> QED
    BY <2>2, <2>3, Zenon
<1>22. PrimaryColumn \o "PK" \o t = PrimaryColumn \o kt /\ PrimaryColumn \o "PK" \o s = PrimaryColumn \o ks
  <2>1. PICK pk : pk = "PK"
    OBVIOUS
  <2>2. pk \in STRING
    BY <1>7, <2>1
  <2>3. Associates(PrimaryColumn, pk, t)
    BY <1>9, <2>2, Joined, Zenon
  <2>4. Associates(PrimaryColumn, pk, s)
    BY <1>9, <2>2, Joined, Zenon
  <2> QED
    BY <1>10, <1>11, <2>1, <2>3, <2>4, Zenon DEF Associates
<1>23. CASE c = PrimaryColumn /\ d = PrimaryColumn
  <2>1. PrimaryColumn \o ks = PrimaryColumn \o kt
    BY <1>15, <1>20, <1>23
  <2>2. ks = kt
    BY <1>9, <1>12, <2>1, JoinedEqually, Zenon
  <2>3. "PK" \o s = "PK" \o t
    BY <1>10, <1>11, <2>2
  <2>4. s = t
    BY <1>9, <2>3, JoinedEqually, Zenon
  <2>5. i = j
    BY <1>3, <1>4, <1>5, <2>4, Zenon DEF NumberLaws
  <2> QED
    BY <1>1, <1>2, <1>23, <2>5 DEF NamesTell
<1>24. CASE c # PrimaryColumn /\ d # PrimaryColumn
  <2>1. c = d
    BY <1>15, <1>20, <1>21, <1>24
  <2>2. c \o ToString(i) = c \o ToString(j)
    BY <1>4, <1>5, <1>15, <1>20, <1>24, <2>1, Zenon
  <2>3. i = j
    BY <1>3, <1>9, <2>2, NumbersDiffer, Zenon
  <2> QED
    BY <1>1, <1>2, <2>1, <2>3 DEF NamesTell
<1>25. CASE c # PrimaryColumn /\ d = PrimaryColumn
  BY <1>15, <1>20, <1>21, <1>22, <1>25
<1>26. CASE c = PrimaryColumn /\ d # PrimaryColumn
  BY <1>15, <1>20, <1>21, <1>22, <1>26
<1> QED
  BY <1>23, <1>24, <1>25, <1>26 DEF NamesTell

LEMMA SaidMeansOne ==
  ASSUME TextLaws(STRING), NumberLaws(Nat), ParametersInv, Said, index = Len(batch),
         Unambiguous(UsedColumns, Len(batch))
  PROVE  OneMeaning
<1> SUFFICES ASSUME NEW i \in DOMAIN statement, NEW j \in DOMAIN statement,
                    statement[i].name = statement[j].name
             PROVE  statement[i].meant = statement[j].meant
  BY DEF OneMeaning
<1>1. PICK n : n = Len(batch)
  OBVIOUS
<1>2. n \in Nat /\ index = n
  <2>1. batch \in Seq(Entities)
    <3>1. <<>> \in Seq(Entities)
      OBVIOUS
    <3> QED
      BY <3>1, ParametersAssumption DEF ParametersInv, TypeOK
  <2> QED
    BY <1>1, <2>1, LenProperties
<1>3. PICK k \in 1 .. n, c \in Columns :
        statement[i] = Placeholder(Name(c, k - 1), Property(batch[k], c))
  BY <1>2 DEF Said
<1>4. PICK l \in 1 .. n, d \in Columns :
        statement[j] = Placeholder(Name(d, l - 1), Property(batch[l], d))
  BY <1>2 DEF Said
<1>5. statement[i].meant[2] = c /\ statement[j].meant[2] = d
  BY <1>3, <1>4 DEF Placeholder, Property
<1>6. PICK used : used = UsedColumns
  OBVIOUS
<1>7. (c # PrimaryColumn => c \in used) /\ (d # PrimaryColumn => d \in used)
  BY <1>5, <1>6 DEF UsedColumns
<1>8. Name(c, k - 1) = Name(d, l - 1)
  <2>1. PICK x : x = Name(c, k - 1)
    OBVIOUS
  <2>2. PICK y : y = Name(d, l - 1)
    OBVIOUS
  <2>3. PICK v : v = Property(batch[k], c)
    OBVIOUS
  <2>4. PICK w : w = Property(batch[l], d)
    OBVIOUS
  <2>5. statement[i] = Placeholder(x, v) /\ statement[j] = Placeholder(y, w)
    BY <1>3, <1>4, <2>1, <2>2, <2>3, <2>4, Zenon
  <2>6. statement[i].name = x /\ statement[j].name = y
    BY <2>5 DEF Placeholder
  <2> QED
    BY <2>1, <2>2, <2>6, Zenon
<1>9. Unambiguous(used, n)
  BY <1>1, <1>6
<1>10. NamesTell(c, k, d, l)
  BY <1>2, <1>3, <1>4, <1>7, <1>8, <1>9, NamesTellObjects, Zenon
<1> QED
  BY <1>3, <1>4, <1>5, <1>10 DEF NamesTell, Placeholder

-----------------------------------------------------------------------------
(* Queries.                                                                *)

(* What an argument adds, if it may come where it does: names that count   *)
(* on from the number of the parameters.                                   *)
Added(n, names, values) ==
  /\ n \in Nat /\ names = [i \in 1 .. n |-> names[i]]
  /\ Add(names, values)
  /\ \A i \in 1 .. n : names[i] = Len(parameters) + i - 1

LEMMA OneArgument ==
  ASSUME HandleParameter
  PROVE  \E x \in Int : arguments' = Append(arguments, x) /\ (x = -1 \/ x \in ListSizes)
<1>1. HandleValue \/ \E n \in ListSizes : HandleList(n)
  BY Zenon DEF HandleParameter
<1>2. CASE HandleValue
  <2>1. -1 \in Int
    OBVIOUS
  <2>2. arguments' = Append(arguments, -1)
    BY <1>2, Zenon DEF HandleValue
  <2> QED
    BY <2>1, <2>2, Zenon
<1>3. ASSUME NEW n \in ListSizes, HandleList(n)
      PROVE  n \in Int /\ arguments' = Append(arguments, n)
  <2>1. n \in Int
    BY ParametersAssumption
  <2>2. arguments' = Append(arguments, n)
    BY <1>3, Zenon DEF HandleList
  <2> QED
    BY <2>1, <2>2
<1> QED
  BY <1>1, <1>2, <1>3, Zenon

LEMMA NextArgument ==
  ASSUME ParametersInv, TextInv, HandleParameter, ListsComeLast'
  PROVE  /\ ListsComeLast
         /\ \E n, names, values : Added(n, names, values)
         /\ Counted'
<1>1. PICK x \in Int : arguments' = Append(arguments, x) /\ (x = -1 \/ x \in ListSizes)
  BY OneArgument, Zenon
<1>2. PICK k : k = Len(arguments)
  OBVIOUS
<1>3. /\ k \in Nat /\ DOMAIN arguments = 1 .. k /\ DOMAIN arguments' = 1 .. k + 1
      /\ \A i \in 1 .. k : arguments'[i] = arguments[i] /\ arguments[i] \in Int
      /\ arguments'[k + 1] = x
  BY <1>1, <1>2 DEF TextInv
<1>4. \A i, j \in 1 .. k + 1 : i < j /\ arguments'[i] >= 0 => arguments'[j] = 0
  BY <1>3 DEF ListsComeLast
<1>5. ListsComeLast
  BY <1>3, <1>4 DEF ListsComeLast
<1>6. x # 0 => \A i \in 1 .. k : arguments[i] < 0
  <2> SUFFICES ASSUME NEW i \in 1 .. k, ~(arguments[i] < 0)
               PROVE  x = 0
    OBVIOUS
  <2>1. arguments'[i] >= 0 /\ i < k + 1 /\ k + 1 \in 1 .. k + 1 /\ i \in 1 .. k + 1
    BY <1>3
  <2> QED
    BY <1>3, <1>4, <2>1
<1>7. use = "query"
  BY DEF HandleParameter
<1>8. x # 0 => parameterIndex = Len(parameters)
  BY <1>3, <1>5, <1>6, <1>7 DEF TextInv, Counted
<1>9. parameterIndex \in Int
  BY DEF ParametersInv, TypeOK
<1>10. Len(parameters) \in Nat
  <2>1. PICK S : parameters \in Seq(S)
    BY DEF ParametersInv, IsSequence
  <2> QED
    BY <2>1, LenProperties
<1>11. CASE HandleValue
  <2>1. x = -1
    BY <1>2, <1>3, <1>11 DEF HandleValue, TextInv
  <2>2. PICK names : names = <<parameterIndex>>
    OBVIOUS
  <2>3. PICK values : values = NewArguments(1)
    OBVIOUS
  <2>4. names = [i \in 1 .. 1 |-> names[i]] /\ DOMAIN names = 1 .. 1 /\ names[1] = parameterIndex
    BY <2>2
  <2>5. Add(names, values) /\ parameterIndex' = parameterIndex + 1
    BY <1>11, <2>2, <2>3, Zenon DEF HandleValue
  <2>6. \A i \in 1 .. 1 : names[i] = Len(parameters) + i - 1
    BY <1>8, <1>10, <2>1, <2>4
  <2>7. Added(1, names, values)
    BY <2>4, <2>5, <2>6 DEF Added
  <2>8. 1 \in Nat
    OBVIOUS
  <2>9. Len(parameters') = Len(parameters) + 1
    BY <2>4, <2>5, <2>8, Adding, Zenon
  <2>10. Counted'
    BY <1>8, <1>10, <2>1, <2>5, <2>9 DEF Counted
  <2> QED
    BY <1>5, <2>7, <2>10, Zenon
<1>12. ASSUME NEW n \in ListSizes, HandleList(n)
       PROVE  (\E m, names, values : Added(m, names, values)) /\ Counted'
  <2>1. n \in Nat
    BY ParametersAssumption
  <2>2. x = n
    BY <1>2, <1>3, <1>12, <2>1 DEF HandleList, TextInv
  <2>3. PICK names : names = [i \in 1 .. n |-> parameterIndex + i - 1]
    OBVIOUS
  <2>4. PICK values : values = NewArguments(n)
    OBVIOUS
  <2>5. names = [i \in 1 .. n |-> names[i]]
    BY <2>3
  <2>6. Add(names, values)
    BY <1>12, <2>3, <2>4, Zenon DEF HandleList
  <2>7. \A i \in 1 .. n : names[i] = Len(parameters) + i - 1
    BY <1>8, <1>9, <1>10, <2>1, <2>2, <2>3
  <2>8. Added(n, names, values)
    BY <2>1, <2>5, <2>6, <2>7, Zenon DEF Added
  <2>9. Counted'
    <3>1. k + 1 \in DOMAIN arguments' /\ ~(arguments'[k + 1] < 0)
      BY <1>3, <2>1, <2>2
    <3> QED
      BY <3>1 DEF Counted
  <2> QED
    BY <2>8, <2>9, Zenon
<1>13. HandleValue \/ \E n \in ListSizes : HandleList(n)
  BY DEF HandleParameter
<1> QED
  BY <1>5, <1>11, <1>12, <1>13, Zenon

LEMMA TextOfQuery ==
  ASSUME ParametersInv, TextInv, HandleParameter
  PROVE  TextInv'
<1>1. use' = "query" /\ phase' = "building" /\ use = "query"
  BY DEF HandleParameter
<1>2. arguments' \in Seq(Int)
  <2>1. PICK x \in Int : arguments' = Append(arguments, x)
    BY OneArgument, Zenon
  <2>2. arguments \in Seq(Int)
    BY DEF TextInv
  <2> QED
    BY <2>1, <2>2
<1>3. ~Sent' /\ ~First'
  BY <1>1 DEF Sent, First
<1>4. ASSUME ListsComeLast'
      PROVE  Corresponds' /\ Numbered' /\ Counted'
  <2>1. ListsComeLast /\ Counted' /\ \E n, names, values : Added(n, names, values)
    BY <1>4, NextArgument, Zenon
  <2>2. PICK n, names, values : Added(n, names, values)
    BY <2>1, Zenon
  <2>3. n \in Nat /\ names = [i \in 1 .. n |-> names[i]] /\ Add(names, values)
    BY <2>2, Zenon DEF Added
  <2>4. Corresponds /\ Numbered
    BY <1>1, <2>1, Zenon DEF TextInv
  <2>5. PICK k : k = Len(statement)
    OBVIOUS
  <2>6. /\ k \in Nat /\ Len(statement') = k + n /\ Len(parameters') = k + n /\ Len(parameters) = k
        /\ DOMAIN statement = 1 .. k /\ DOMAIN statement' = 1 .. k + n
    BY <2>3, <2>4, <2>5, Adding, Zenon DEF Corresponds
  <2>7. \A i \in 1 .. k : statement'[i] = statement[i] /\ parameters'[i] = parameters[i]
    BY <2>3, <2>5, <2>6, Adding, Zenon
  <2>8. \A j \in 1 .. n :
          /\ statement'[k + j] = Placeholder(Written(names[j]), values[j])
          /\ parameters'[k + j] = Parameter("@p" \o ToString(names[j]), values[j])
    <3>1. Appended(n, names, values)
      BY <2>3, Adding, Zenon
    <3>2. Len(statement) = k /\ Len(parameters) = k
      BY <2>5, <2>6
    <3> QED
      BY <3>1, <3>2, Zenon DEF Appended
  <2>9. ASSUME NEW i \in DOMAIN statement', i \notin 1 .. k
        PROVE  /\ statement'[i].name = "@p" \o ToString(i - 1)
               /\ parameters'[i].name = "@p" \o ToString(i - 1)
               /\ parameters'[i].value = statement'[i].meant
    <3>1. PICK j : j = i - k
      OBVIOUS
    <3>2. j \in 1 .. n /\ i = k + j
      BY <2>3, <2>6, <2>9, <3>1
    <3>3. names[j] = k + j - 1
      BY <2>2, <2>6, <3>2 DEF Added
    <3>4. names[j] = i - 1 /\ ~(names[j] < 0)
      BY <2>6, <3>2, <3>3
    <3>5. PICK name : name = "@p" \o ToString(names[j])
      OBVIOUS
    <3>6. Written(names[j]) = name
      BY <3>4, <3>5, Zenon DEF Written
    <3>7. statement'[i] = Placeholder(name, values[j]) /\ parameters'[i] = Parameter(name, values[j])
      BY <2>8, <3>2, <3>5, <3>6, Zenon
    <3>8. statement'[i].name = name /\ parameters'[i].name = name /\ parameters'[i].value = statement'[i].meant
      BY <3>7 DEF Placeholder, Parameter
    <3> QED
      BY <3>4, <3>5, <3>8, Zenon
  <2>10. \A i \in 1 .. k : i \in DOMAIN statement
    BY <2>6
  <2>11. Numbered'
    <3> SUFFICES ASSUME NEW i \in DOMAIN statement'
                 PROVE  statement'[i].name = "@p" \o ToString(i - 1)
      BY Zenon DEF Numbered
    <3>1. CASE i \in 1 .. k
      BY <2>4, <2>7, <2>10, <3>1, Zenon DEF Numbered
    <3> QED
      BY <2>9, <3>1, Zenon
  <2>12. Corresponds'
    <3>1. ASSUME NEW i \in DOMAIN statement'
          PROVE  parameters'[i].name = statement'[i].name /\ parameters'[i].value = statement'[i].meant
      <4>1. CASE i \in 1 .. k
        BY <2>4, <2>7, <2>10, <4>1, Zenon DEF Corresponds
      <4> QED
        BY <2>9, <4>1, Zenon
    <3> QED
      BY <2>6, <3>1, Zenon DEF Corresponds
  <2> QED
    BY <2>1, <2>11, <2>12
<1> QED
  BY <1>2, <1>3, <1>4, Zenon DEF TextInv

-----------------------------------------------------------------------------
(* Updates and deletes.                                                    *)

(* What the text of a command says depends on the objects only while an    *)
(* update is built.                                                        *)
LEMMA TextStays ==
  ASSUME TextInv, entity' = entity \/ ~Updating',
         UNCHANGED <<use, uses, parameters, statement, parameterIndex, arguments, batch, index, phase, refused>>
  PROVE  TextInv'
<1>1. /\ Sent' = Sent /\ First' = First /\ Corresponds' = Corresponds
      /\ Counted' = Counted /\ ListsComeLast' = ListsComeLast /\ OneMeaning' = OneMeaning
      /\ Updating' = Updating
  BY DEF Sent, First, Corresponds, Counted, ListsComeLast, OneMeaning, Updating
<1>2. Numbered' = Numbered
  BY DEF Numbered
<1>3. Updating' /\ Said => Said'
  BY <1>1 DEF Said, Property
<1>4. UsedColumns' = UsedColumns
  BY DEF UsedColumns
<1>5. Unambiguous(UsedColumns, Len(batch))' = Unambiguous(UsedColumns, Len(batch))
  BY <1>4 DEF Unambiguous
<1> QED
  BY <1>1, <1>2, <1>3, <1>5 DEF TextInv

LEMMA TextOfAssign ==
  ASSUME TextInv, NEW e \in Assignable, NEW c \in Settable, Assign(e, c)
  PROVE  TextInv'
<1>1. phase \in {"idle", "sent"}
      /\ UNCHANGED <<use, uses, parameters, statement, parameterIndex, arguments, batch, index, phase, refused>>
  BY DEF Assign, commandVars
<1>2. ~Updating'
  BY <1>1 DEF Updating
<1> QED
  BY <1>1, <1>2, TextStays

LEMMA TextOfUnchanged == TextInv /\ UNCHANGED vars => TextInv'
BY TextStays DEF vars, commandVars, entityVars

(* The first execution of an update or a delete starts with no parameters. *)
LEMMA NothingYet ==
  ASSUME TextInv, use # "query", ~refused, uses = 0, phase \in {"idle", "sent"}
  PROVE  parameters = <<>>
BY DEF TextInv, First, Sent

LEMMA TextOfStartUpdate ==
  ASSUME TextInv, StartUpdate
  PROVE  TextInv'
<1>1. /\ use = "update" /\ use' = "update" /\ phase \in {"idle", "sent"} /\ phase' = "building"
      /\ statement' = <<>> /\ UNCHANGED <<uses, parameters, arguments, refused>>
  BY DEF StartUpdate, MayStart
<1>2. ~Sent' /\ arguments' \in Seq(Int)
  BY <1>1 DEF Sent, TextInv
<1>3. ASSUME First'
      PROVE  Corresponds'
  <2>1. ~refused /\ uses = 0
    BY <1>1, <1>2, <1>3 DEF First
  <2>2. parameters' = <<>>
    BY <1>1, <2>1, NothingYet
  <2> QED
    BY <1>1, <2>2 DEF Corresponds
<1>4. Said'
  <2>1. DOMAIN statement' = {}
    BY <1>1
  <2> QED
    BY <2>1 DEF Said
<1>5. phase' # "idle" /\ use' # "query" /\ use' # "delete"
  BY <1>1
<1> QED
  BY <1>2, <1>3, <1>4, <1>5, Zenon DEF TextInv

(* A statement gets a place for every parameter.                           *)
LEMMA BothLonger ==
  ASSUME Corresponds, NEW n \in Nat, NEW a, NEW b,
         Extended(parameters', parameters, a, n), Extended(statement', statement, b, n),
         \A j \in 1 .. n : a[j].name = b[j].name /\ a[j].value = b[j].meant
  PROVE  Corresponds'
<1>1. PICK k : k = Len(statement)
  OBVIOUS
<1>2. /\ k \in Nat /\ Len(parameters) = k /\ DOMAIN statement = 1 .. k /\ DOMAIN statement' = 1 .. k + n
      /\ Len(parameters') = k + n /\ Len(statement') = k + n
  BY <1>1 DEF Extended, Corresponds
<1>3. /\ \A i \in 1 .. k : parameters'[i] = parameters[i] /\ statement'[i] = statement[i]
      /\ \A j \in 1 .. n : parameters'[k + j] = a[j] /\ statement'[k + j] = b[j]
  BY <1>1, <1>2 DEF Extended
<1>4. ASSUME NEW i \in DOMAIN statement'
      PROVE  parameters'[i].name = statement'[i].name /\ parameters'[i].value = statement'[i].meant
  <2>1. CASE i \in 1 .. k
    BY <1>2, <1>3, <2>1 DEF Corresponds
  <2>2. CASE i \notin 1 .. k
    <3>1. PICK j : j = i - k
      OBVIOUS
    <3>2. j \in 1 .. n /\ i = k + j
      BY <1>2, <2>2, <3>1
    <3> QED
      BY <1>3, <3>2
  <2> QED
    BY <2>1, <2>2
<1> QED
  BY <1>2, <1>4 DEF Corresponds

LEMMA TextOfBaseUpdate ==
  ASSUME ParametersInv, TextInv, BaseUpdate
  PROVE  TextInv'
<1>1. PICK e : e = batch[index + 1]
  OBVIOUS
<1>2. /\ Updating /\ use = "update" /\ use' = "update" /\ phase = "building" /\ index < Len(batch)
      /\ UNCHANGED <<uses, arguments, batch, entity>>
  BY DEF BaseUpdate, Updating
<1>3. index \in Nat /\ e \in Entities
  BY <1>1, <1>2, NextObject
<1>4. arguments' \in Seq(Int) /\ use' # "query" /\ use' # "delete"
  BY <1>2 DEF TextInv
<1>5. CASE e \notin Tracked
  <2>1. phase' = "idle" /\ refused' = TRUE
    BY <1>1, <1>5 DEF BaseUpdate
  <2>2. ~Sent' /\ ~First'
    BY <2>1 DEF Sent, First
  <2> QED
    BY <1>4, <2>2, Zenon DEF TextInv
<1>6. CASE e \in Tracked
  <2>1. /\ index' = index + 1 /\ UNCHANGED <<phase, refused>>
        /\ IF isDirty[e]
           THEN /\ parameters' = parameters \o Retrieved(e, index)
                /\ statement' = statement \o Names(Retrieved(e, index))
           ELSE UNCHANGED <<parameters, statement>>
    BY <1>1, <1>6 DEF BaseUpdate
  <2>2. ~Sent' /\ phase' # "idle"
    BY <1>2, <2>1 DEF Sent
  <2>3. ASSUME First'
        PROVE  Corresponds' /\ Said'
    <3>1. First
      BY <1>2, <2>1, <2>2, <2>3 DEF First
    <3>2. Corresponds /\ Said
      BY <1>2, <3>1, Zenon DEF TextInv
    <3>3. \A i \in DOMAIN statement : \E k \in 1 .. index + 1, c \in Columns :
            statement[i] = Placeholder(Name(c, k - 1), Property(batch[k], c))
      <4>1. \A k \in 1 .. index : k \in 1 .. index + 1
        BY <1>3
      <4> QED
        BY <3>2, <4>1, Zenon DEF Said
    <3>4. \A x, c : Property(x, c)' = Property(x, c)
      BY <1>2 DEF Property
    <3>5. CASE ~isDirty[e]
      <4>1. UNCHANGED <<parameters, statement>>
        BY <2>1, <3>5
      <4>2. Corresponds'
        BY <3>2, <4>1 DEF Corresponds
      <4>3. Said'
        BY <1>2, <2>1, <3>3, <3>4, <4>1, Zenon DEF Said
      <4> QED
        BY <4>2, <4>3
    <3>6. CASE isDirty[e]
      <4>1. PICK r : r = Retrieved(e, index)
        OBVIOUS
      <4>2. IsSequence(r) /\ Len(r) \in Nat
        BY <1>3, <4>1, RetrievedColumns
      <4>3. \A j \in 1 .. Len(r) : \E c \in Columns : r[j] = ValueRetriever(e, c, Suffix(c, index))
        <5>1. \A j \in 1 .. Len(Retrieved(e, index)) : \E c \in Columns :
                Retrieved(e, index)[j] = ValueRetriever(e, c, Suffix(c, index))
          BY <1>3, RetrievedColumns
        <5> QED
          BY <4>1, <5>1
      <4>4. PICK m : m = Names(r)
        OBVIOUS
      <4>5. /\ IsSequence(m) /\ Len(m) = Len(r)
            /\ \A j \in 1 .. Len(r) : m[j] = Placeholder(r[j].name, r[j].value)
        BY <4>2, <4>4, NamesOf
      <4>6. parameters' = parameters \o r /\ statement' = statement \o m
        BY <2>1, <3>6, <4>1, <4>4
      <4>7. IsSequence(parameters) /\ IsSequence(statement)
        BY DEF ParametersInv
      <4>8. PICK n : n = Len(r)
        OBVIOUS
      <4>9. Extended(parameters', parameters, r, n) /\ Extended(statement', statement, m, n)
        BY <4>2, <4>5, <4>6, <4>7, <4>8, Lengthened, Zenon
      <4>10. Corresponds'
        <5>1. \A j \in 1 .. n : r[j].name = m[j].name /\ r[j].value = m[j].meant
          <6> SUFFICES ASSUME NEW j \in 1 .. n
                       PROVE  r[j].name = m[j].name /\ r[j].value = m[j].meant
            OBVIOUS
          <6>1. PICK x : x = r[j].name
            OBVIOUS
          <6>2. PICK v : v = r[j].value
            OBVIOUS
          <6>3. m[j] = Placeholder(x, v)
            BY <4>5, <4>8, <6>1, <6>2
          <6> QED
            BY <6>1, <6>2, <6>3 DEF Placeholder
        <5> QED
          BY <3>2, <4>2, <4>8, <4>9, <5>1, BothLonger, Zenon
      <4>11. PICK k : k = Len(statement)
        OBVIOUS
      <4>12. /\ k \in Nat /\ n \in Nat /\ DOMAIN statement = 1 .. k /\ DOMAIN statement' = 1 .. k + n
             /\ \A i \in 1 .. k : statement'[i] = statement[i]
             /\ \A j \in 1 .. n : statement'[k + j] = m[j]
        BY <4>9, <4>11, Zenon DEF Extended
      <4>13. ASSUME NEW i \in DOMAIN statement'
             PROVE  \E l \in 1 .. index + 1, c \in Columns :
                      statement'[i] = Placeholder(Name(c, l - 1), Property(batch[l], c))
        <5>1. CASE i \in 1 .. k
          BY <3>3, <4>12, <5>1, Zenon
        <5>2. CASE i \notin 1 .. k
          <6>1. PICK j : j = i - k
            OBVIOUS
          <6>2. j \in 1 .. n /\ i = k + j
            BY <4>12, <5>2, <6>1
          <6>3. PICK c \in Columns : r[j] = ValueRetriever(e, c, Suffix(c, index))
            BY <4>3, <4>8, <6>2, Zenon
          <6>4. r[j] = Parameter(Name(c, index), Property(e, c))
            BY <6>3, Zenon DEF ValueRetriever, Name
          <6>5. PICK x : x = Name(c, index)
            OBVIOUS
          <6>6. PICK v : v = Property(e, c)
            OBVIOUS
          <6>7. r[j] = Parameter(x, v)
            BY <6>4, <6>5, <6>6, Zenon
          <6>8. r[j].name = x /\ r[j].value = v
            BY <6>7 DEF Parameter
          <6>9. statement'[i] = Placeholder(x, v)
            BY <4>5, <4>8, <4>12, <6>2, <6>8, Zenon
          <6>10. PICK l : l = index + 1
            OBVIOUS
          <6>11. l \in 1 .. index + 1 /\ l - 1 = index /\ batch[l] = e
            BY <1>1, <1>3, <6>10
          <6>12. statement'[i] = Placeholder(Name(c, l - 1), Property(batch[l], c))
            BY <6>5, <6>6, <6>9, <6>11, Zenon
          <6> QED
            BY <6>11, <6>12, Zenon
        <5> QED
          BY <5>1, <5>2, Zenon
      <4>14. Said'
        BY <1>2, <2>1, <3>4, <4>13, Zenon DEF Said
      <4> QED
        BY <4>10, <4>14
    <3> QED
      BY <3>5, <3>6, Zenon
  <2> QED
    BY <1>4, <2>2, <2>3, Zenon DEF TextInv
<1> QED
  BY <1>5, <1>6

LEMMA TextOfBuildDelete ==
  ASSUME TextLaws(STRING), NumberLaws(Nat), ParametersInv, TextInv, BuildDelete
  PROVE  TextInv'
<1>1. PICK objects \in Batches, forwards \in BOOLEAN :
        /\ parameters' = parameters \o DeleteParameters(objects, forwards)
        /\ statement' = Names(DeleteParameters(objects, forwards))
  BY DEF BuildDelete
<1>2. /\ use = "delete" /\ use' = "delete" /\ phase \in {"idle", "sent"} /\ phase' = "building"
      /\ UNCHANGED <<uses, arguments, refused>>
  BY DEF BuildDelete, MayStart
<1>3. PICK d : d = DeleteParameters(objects, forwards)
  OBVIOUS
<1>4. PICK n : n = Len(objects)
  OBVIOUS
<1>5. IsSequence(d) /\ n \in Nat /\ NumberedKeys(d, n, objects)
  BY <1>3, <1>4, DeletesAreNumbered, Zenon
<1>6. PICK m : m = Names(d)
  OBVIOUS
<1>7. /\ Len(m) = Len(d) /\ DOMAIN m = 1 .. Len(d)
      /\ \A j \in 1 .. Len(d) : m[j] = Placeholder(d[j].name, d[j].value)
  BY <1>5, <1>6, NamesOf
<1>8. statement' = m /\ parameters' = parameters \o d
  BY <1>1, <1>3, <1>6
<1>9. \A j \in 1 .. Len(d) : m[j].name = d[j].name /\ m[j].meant = d[j].value
  <2> SUFFICES ASSUME NEW j \in 1 .. Len(d)
               PROVE  m[j].name = d[j].name /\ m[j].meant = d[j].value
    OBVIOUS
  <2>1. PICK x : x = d[j].name
    OBVIOUS
  <2>2. PICK v : v = d[j].value
    OBVIOUS
  <2>3. m[j] = Placeholder(x, v)
    BY <1>7, <2>1, <2>2
  <2> QED
    BY <2>1, <2>2, <2>3 DEF Placeholder
<1>10. ~Sent' /\ arguments' \in Seq(Int) /\ phase' # "idle" /\ use' # "query" /\ use' # "update" /\ ~Updating'
  BY <1>2 DEF Sent, TextInv, Updating
<1>11. ASSUME First'
       PROVE  Corresponds'
  <2>1. ~refused /\ uses = 0 /\ use # "query"
    BY <1>2, <1>10, <1>11 DEF First
  <2>2. parameters = <<>>
    BY <1>2, <2>1, NothingYet
  <2>3. PICK S : d \in Seq(S)
    BY <1>5 DEF IsSequence
  <2>4. <<>> \o d = d
    BY <2>3
  <2>5. parameters' = d
    BY <1>8, <2>2, <2>4
  <2> QED
    BY <1>7, <1>8, <1>9, <2>5, Zenon DEF Corresponds
<1>12. OneMeaning'
  <2> SUFFICES ASSUME NEW i \in DOMAIN m, NEW j \in DOMAIN m, m[i].name = m[j].name
               PROVE  m[i].meant = m[j].meant
    BY <1>8, Zenon DEF OneMeaning
  <2>1. i \in 1 .. Len(d) /\ j \in 1 .. Len(d)
    BY <1>7
  <2>2. d[i].name = d[j].name
    BY <1>9, <2>1
  <2>3. PICK k \in 1 .. n : d[i] = ValueRetriever(objects[k], PrimaryColumn, ToString(k - 1))
    BY <1>5, <2>1, Zenon DEF NumberedKeys
  <2>4. PICK l \in 1 .. n : d[j] = ValueRetriever(objects[l], PrimaryColumn, ToString(l - 1))
    BY <1>5, <2>1, Zenon DEF NumberedKeys
  <2>5. PICK p : p = "@p" \o PrimaryColumn
    OBVIOUS
  <2>6. PICK x : x = p \o ToString(k - 1)
    OBVIOUS
  <2>7. PICK y : y = p \o ToString(l - 1)
    OBVIOUS
  <2>8. PICK v : v = Property(objects[k], PrimaryColumn)
    OBVIOUS
  <2>9. PICK w : w = Property(objects[l], PrimaryColumn)
    OBVIOUS
  <2>10. d[i] = Parameter(x, v)
    BY <2>3, <2>5, <2>6, <2>8, Zenon DEF ValueRetriever
  <2>11. d[j] = Parameter(y, w)
    BY <2>4, <2>5, <2>7, <2>9, Zenon DEF ValueRetriever
  <2>12. d[i].name = x /\ d[i].value = v /\ d[j].name = y /\ d[j].value = w
    BY <2>10, <2>11 DEF Parameter
  <2>13. p \in STRING
    <3>1. PICK q : q = "@p"
      OBVIOUS
    <3>2. q \in STRING
      BY <3>1, Zenon DEF TextLaws
    <3>3. PrimaryColumn \in STRING
      BY ParametersAssumption
    <3>4. q \o PrimaryColumn \in STRING
      BY <3>2, <3>3, Zenon DEF TextLaws
    <3> QED
      BY <2>5, <3>1, <3>4, Zenon
  <2>14. PICK a : a = k - 1
    OBVIOUS
  <2>15. PICK b : b = l - 1
    OBVIOUS
  <2>16. a \in Nat /\ b \in Nat
    BY <1>5, <2>14, <2>15
  <2>17. p \o ToString(a) = p \o ToString(b)
    BY <2>2, <2>6, <2>7, <2>12, <2>14, <2>15, Zenon
  <2>18. a = b
    BY <2>13, <2>16, <2>17, NumbersDiffer, Zenon
  <2>19. k = l
    BY <1>5, <2>14, <2>15, <2>18
  <2>20. v = w
    BY <2>8, <2>9, <2>19
  <2> QED
    BY <1>9, <2>1, <2>12, <2>20
<1> QED
  BY <1>10, <1>11, <1>12, Zenon DEF TextInv

-----------------------------------------------------------------------------
(* Executions.                                                             *)

LEMMA TextOfExecute ==
  ASSUME TextLaws(STRING), NumberLaws(Nat), ParametersInv, TextInv, Execute
  PROVE  TextInv'
<1>1. /\ \/ phase = "building" /\ (use = "update" => index = Len(batch))
         \/ phase = "sent" /\ use = "query"
      /\ phase' \in {"sent", "disposed"} /\ uses' = uses + 1
      /\ UNCHANGED <<use, parameters, statement, parameterIndex, arguments, batch, index, refused>>
  BY DEF Execute
<1>2. uses \in Nat
  BY ParametersAssumption DEF ParametersInv, TypeOK
<1>3. /\ Corresponds' = Corresponds /\ Counted' = Counted /\ ListsComeLast' = ListsComeLast
      /\ OneMeaning' = OneMeaning
  BY <1>1 DEF Corresponds, Counted, ListsComeLast, OneMeaning
<1>4. Numbered' = Numbered
  BY <1>1 DEF Numbered
<1>5. arguments' \in Seq(Int) /\ uses' > 0 /\ ~Updating' /\ phase' # "idle"
  BY <1>1, <1>2 DEF TextInv, Updating
<1>6. UsedColumns' = UsedColumns
  BY <1>1 DEF UsedColumns
<1>7. Unambiguous(UsedColumns, Len(batch))' => Unambiguous(UsedColumns, Len(batch))
  BY <1>1, <1>6 DEF Unambiguous
<1>8. ASSUME First'
      PROVE  First /\ phase = "building" /\ (use = "update" => index = Len(batch))
  BY <1>1, <1>2, <1>8 DEF First
<1>9. ASSUME First', use = "update", Unambiguous(UsedColumns, Len(batch))
      PROVE  OneMeaning
  <2>1. First /\ Updating /\ index = Len(batch)
    BY <1>8, <1>9 DEF Updating
  <2>2. Said
    BY <2>1, Zenon DEF TextInv
  <2> QED
    BY <1>9, <2>1, <2>2, SaidMeansOne, Zenon
<1>10. use' = use
  BY <1>1
<1> QED
  BY <1>3, <1>4, <1>5, <1>7, <1>8, <1>9, <1>10, Zenon DEF TextInv

LEMMA TextOfNothingToUpdate ==
  ASSUME ParametersInv, TextInv, NothingToUpdate
  PROVE  TextInv'
<1>1. /\ use = "update" /\ use' = "update" /\ phase = "building" /\ phase' = "idle" /\ statement = <<>>
      /\ UNCHANGED <<uses, parameters, statement, arguments, refused>>
  BY DEF NothingToUpdate, commandVars
<1>2. ~Sent' /\ ~Updating' /\ arguments' \in Seq(Int) /\ use' # "query" /\ use' # "delete"
  BY <1>1 DEF Sent, Updating, TextInv
<1>3. ASSUME First'
      PROVE  Corresponds' /\ parameters' = <<>>
  <2>1. First
    BY <1>1, <1>2, <1>3 DEF First
  <2>2. Corresponds
    BY <2>1, Zenon DEF TextInv
  <2>3. Len(parameters) = 0
    BY <1>1, <2>2 DEF Corresponds
  <2>4. PICK S : parameters \in Seq(S)
    BY DEF ParametersInv, IsSequence
  <2>5. parameters = <<>>
    BY <2>3, <2>4, EmptySeq
  <2>6. Corresponds'
    BY <1>1, <2>2 DEF Corresponds
  <2> QED
    BY <1>1, <2>5, <2>6
<1> QED
  BY <1>2, <1>3, Zenon DEF TextInv

LEMMA TextStarts == Init => TextInv
<1> SUFFICES ASSUME Init
             PROVE  TextInv
  OBVIOUS
<1>1. /\ phase = "idle" /\ uses = 0 /\ parameters = <<>> /\ statement = <<>> /\ parameterIndex = 0
      /\ arguments = <<>>
  BY DEF Init
<1>2. ~Sent /\ ~Updating /\ arguments \in Seq(Int)
  BY <1>1 DEF Sent, Updating
<1>3. Len(parameters) = 0 /\ Len(statement) = 0 /\ DOMAIN statement = {}
  BY <1>1
<1>4. Corresponds /\ OneMeaning
  BY <1>3 DEF Corresponds, OneMeaning
<1>5. Numbered
  BY <1>3, Zenon DEF Numbered
<1>6. Counted
  BY <1>1, <1>3 DEF Counted
<1> QED
  BY <1>1, <1>2, <1>4, <1>5, <1>6, Zenon DEF TextInv

(* The inductive invariant of what a command says: until it was executed   *)
(* once, an update or a delete has no parameters but those of its          *)
(* statement, and those of a query are numbered one by one.                *)
THEOREM TextInvariance ==
  ASSUME TextLaws(STRING), NumberLaws(Nat)
  PROVE  Spec => []TextInv
<1>1. ParametersInv /\ TextInv /\ [Next]_vars => TextInv'
  BY TextOfQuery, TextOfAssign, TextOfStartUpdate, TextOfBaseUpdate, TextOfBuildDelete, TextOfExecute,
     TextOfNothingToUpdate, TextOfUnchanged DEF Next
<1> QED
  BY <1>1, TextStarts, ParametersInvariance, PTL DEF Spec

(* Every argument of a query reaches the place it was written at, however  *)
(* many arguments there are and however long a list, if only the list is   *)
(* the last of them.                                                       *)
THEOREM QueriesGetTheirArguments ==
  ASSUME TextLaws(STRING), NumberLaws(Nat)
  PROVE  Spec => []ArgumentsReachTheirPlaces
<1>1. ParametersInv /\ TextInv => ArgumentsReachTheirPlaces
  <2> SUFFICES ASSUME ParametersInv, TextInv, use = "query", ListsComeLast
               PROVE  SentAsMeant
    BY DEF ArgumentsReachTheirPlaces
  <2>1. Corresponds /\ Numbered
    BY Zenon DEF TextInv
  <2>2. IsSequence(parameters) /\ IsSequence(statement)
    BY DEF ParametersInv
  <2>3. OneMeaning
    BY <2>1, <2>2, NumberedMeansOne, Zenon
  <2> QED
    BY <2>1, <2>2, <2>3, SentIsMeant, Zenon
<1> QED
  BY <1>1, ParametersInvariance, TextInvariance, PTL

(* The first execution of an update gives each row the values of its own   *)
(* object, and that of a delete names each row, for all columns that       *)
(* cannot be confused and batches of any length.                           *)
THEOREM RowsGetTheirValues ==
  ASSUME TextLaws(STRING), NumberLaws(Nat)
  PROVE  Spec => []WritesReachTheirRows
<1>1. ParametersInv /\ TextInv => WritesReachTheirRows
  <2> SUFFICES ASSUME ParametersInv, TextInv, use # "query", Sent, uses = 1, ~refused,
                      Unambiguous(UsedColumns, Len(batch))
               PROVE  SentAsMeant
    BY DEF WritesReachTheirRows
  <2>1. First /\ use \in {"update", "delete"}
    BY DEF First, ParametersInv, TypeOK
  <2>2. Corresponds
    BY <2>1, Zenon DEF TextInv
  <2>3. OneMeaning
    BY <2>1, Zenon DEF TextInv
  <2>4. IsSequence(parameters)
    BY DEF ParametersInv
  <2> QED
    BY <2>2, <2>3, <2>4, SentIsMeant, Zenon
<1> QED
  BY <1>1, ParametersInvariance, TextInvariance, PTL

=============================================================================
