---------------------------- MODULE AsJavaProofs ----------------------------
(***************************************************************************)
(* Three of the parts of AsJava do as Java does for every value of the     *)
(* constants: any libraries and native methods, any described classes and  *)
(* stacks, any command lines, options and jar files.  Each has an invariant*)
(* of its own, which holds while its part is the one that runs: LoadInv and*)
(* CalmInv of Libraries, QueryInv of Queries, StartInv of Launcher.        *)
(***************************************************************************)
EXTENDS AsJava, SequenceTheorems, FiniteSetTheorems, TLAPS

-----------------------------------------------------------------------------
(* Native methods.                                                         *)

\* Interpreter::append_mapped maps a character as JNI does, unless JNI wants its code.
LEMMA MappedIsJava ==
  ASSUME NEW c, c \notin Native!Letters
  PROVE  Native!Mapped(c) = Native!JavaMapped(c)
<1> DEFINE signs == <<"_", ";", "[">>
           I == {i \in 1 .. Len(signs) : signs[i] = c}
<1>1. Native!SelectInSeq(signs, LAMBDA x : x = c) = IF I # {} THEN Native!Min(I) ELSE 0
  BY Zenon DEF Native!SelectInSeq
<1>2. 1 .. Len(signs) = {1, 2, 3} /\ signs[1] = "_" /\ signs[2] = ";" /\ signs[3] = "["
  OBVIOUS
<1>3. I = {i \in {1, 2, 3} : signs[i] = c}
  BY <1>2
<1>4. PICK e : e = Native!SelectInSeq(signs, LAMBDA x : x = c)
  OBVIOUS
<1>5. Native!JavaMapped(c) =
        IF c = "$" THEN <<"_", "0", "0024">>
        ELSE IF c = "/" THEN <<"_">>
        ELSE IF e = 0 THEN <<c>>
        ELSE <<"_", <<"1", "2", "3">>[e]>>
  BY <1>4, Zenon DEF Native!JavaMapped
<1>11. e = IF I # {} THEN Native!Min(I) ELSE 0
  BY <1>1, <1>4, Zenon
<1> HIDE DEF signs
<1>6. \A n \in Nat : I = {n} => Native!Min(I) = n
  BY DEF Native!Min
<1>7. CASE c = "_"
  <2>1. I = {1}
    BY <1>2, <1>3, <1>7
  <2>2. Native!Min(I) = 1
    BY <1>6, <2>1
  <2>3. I # {}
    BY <2>1
  <2> HIDE DEF I
  <2>4. e = 1
    BY <1>11, <2>2, <2>3
  <2>7. e # 0
    BY <2>4
  <2>8. c # "$" /\ c # "/"
    BY <1>7
  <2>6. Native!JavaMapped(c) = <<"_", <<"1", "2", "3">>[1]>>
    BY <1>5, <2>4, <2>7, <2>8, Zenon
  <2>5. Native!Mapped(c) = <<"_", "1">>
    BY <1>7 DEF Native!Mapped
  <2> QED BY <2>5, <2>6
<1>8. CASE c = ";"
  <2>1. I = {2}
    BY <1>2, <1>3, <1>8
  <2>2. Native!Min(I) = 2
    BY <1>6, <2>1
  <2>3. I # {}
    BY <2>1
  <2> HIDE DEF I
  <2>4. e = 2
    BY <1>11, <2>2, <2>3
  <2>7. e # 0
    BY <2>4
  <2>8. c # "$" /\ c # "/"
    BY <1>8
  <2>6. Native!JavaMapped(c) = <<"_", <<"1", "2", "3">>[2]>>
    BY <1>5, <2>4, <2>7, <2>8, Zenon
  <2>5. Native!Mapped(c) = <<"_", "2">>
    BY <1>8 DEF Native!Mapped
  <2> QED BY <2>5, <2>6
<1>9. CASE c = "["
  <2>1. I = {3}
    BY <1>2, <1>3, <1>9
  <2>2. Native!Min(I) = 3
    BY <1>6, <2>1
  <2>3. I # {}
    BY <2>1
  <2> HIDE DEF I
  <2>4. e = 3
    BY <1>11, <2>2, <2>3
  <2>7. e # 0
    BY <2>4
  <2>8. c # "$" /\ c # "/"
    BY <1>9
  <2>6. Native!JavaMapped(c) = <<"_", <<"1", "2", "3">>[3]>>
    BY <1>5, <2>4, <2>7, <2>8, Zenon
  <2>5. Native!Mapped(c) = <<"_", "3">>
    BY <1>9 DEF Native!Mapped
  <2> QED BY <2>5, <2>6
<1>10. CASE c \notin {"_", ";", "["}
  <2>1. I = {}
    BY <1>2, <1>3, <1>10
  <2>2. e = 0
    BY <1>11, <2>1
  <2> QED BY <1>5, <1>10, <2>2 DEF Native!Mapped
<1> QED BY <1>7, <1>8, <1>9, <1>10

\* So it does with a string.
LEMMA StringIsJava ==
  ASSUME NEW s, \A i \in DOMAIN s : s[i] \notin Native!Letters
  PROVE  Native!append_mapped(s) = Native!JavaString(s)
<1>1. [i \in DOMAIN s |-> Native!Mapped(s[i])] = [i \in DOMAIN s |-> Native!JavaMapped(s[i])]
  BY MappedIsJava
<1> QED BY <1>1, Zenon DEF Native!append_mapped, Native!JavaString

\* So native_method_name searches for the name that JNI has for the method, the
\* long one if and only if another native method has the short one.
LEMMA NameIsJava ==
  ASSUME NEW m, ~Native!HasLetters(m)
  PROVE  Native!native_method_name(m) =
           IF Native!Overloads(m) = {} THEN Native!Short(m) ELSE Native!Long(m)
<1>1. \A s \in {m.class, m.name} : \A i \in DOMAIN s : s[i] \notin Native!Letters
  BY DEF Native!HasLetters
<1>2. \A i \in DOMAIN m.parameters : \A j \in DOMAIN m.parameters[i] :
        m.parameters[i][j] \notin Native!Letters
  BY DEF Native!HasLetters, Native!Range
<1>3. /\ Native!append_mapped(m.class) = Native!JavaString(m.class)
      /\ Native!append_mapped(m.name) = Native!JavaString(m.name)
  BY <1>1, StringIsJava
<1>4. \A i \in DOMAIN m.parameters :
        Native!append_mapped(m.parameters[i]) = Native!JavaString(m.parameters[i])
  BY <1>2, StringIsJava
<1>5. [i \in DOMAIN m.parameters |-> Native!append_mapped(m.parameters[i])] =
      [i \in DOMAIN m.parameters |-> Native!JavaString(m.parameters[i])]
  BY <1>4
<1>6. Native!MappedTypes(m) =
      Native!FlattenSeq([i \in DOMAIN m.parameters |-> Native!JavaString(m.parameters[i])])
  BY <1>5, Zenon DEF Native!MappedTypes
<1>7. Native!Short(m) =
      <<"Java_">> \o Native!append_mapped(m.class) \o <<"_">> \o Native!append_mapped(m.name)
  BY <1>3, Zenon DEF Native!Short
<1>8. Native!Long(m) = Native!Short(m) \o <<"__">> \o Native!MappedTypes(m)
  BY <1>6, Zenon DEF Native!Long
<1> QED BY <1>3, <1>7, <1>8, Zenon DEF Native!native_method_name

\* The threads that load a library, or run its JNI_OnLoad.
Loading(path) == {u \in Caller : call[u].what \in {"load", "init"} /\ call[u].of = path}

\* Each of them, and each JNI_OnLoad that has run, was an operation.
LoadInv ==
  /\ libraries \subseteq Native!Path
  /\ does \in LibraryPrograms /\ begun \in Nat /\ begun <= does.steps
  /\ DOMAIN nativeCall = Method /\ DOMAIN registered = Method /\ DOMAIN call = Caller
  /\ loaded \in [Native!Path -> Nat]
  /\ \A path \in Native!Path :
       /\ IsFiniteSet(Loading(path))
       /\ loaded[path] + Cardinality(Loading(path)) <= begun
  /\ \A u \in Caller : call[u].what \in {"load", "init"} => call[u].of \in Native!Path

\* Nobody has done anything at first.
LEMMA LoadBegins == Native!Init => LoadInv
<1> SUFFICES ASSUME Native!Init PROVE LoadInv
  OBVIOUS
<1>1. \A path : Loading(path) = {}
  BY DEF Loading, Native!Init, Native!Idle
<1>2. \A path : IsFiniteSet(Loading(path)) /\ Cardinality(Loading(path)) = 0
  BY <1>1, FS_EmptySet
<1>3. does.steps \in Nat
  BY AsJavaAssumption DEF Native!Init, Native!IsSetting
<1> QED BY <1>2, <1>3 DEF LoadInv, Native!Init, Native!Idle

\* One thread more or less.
LEMMA OneMore ==
  ASSUME NEW S, IsFiniteSet(S), NEW T, NEW x, T \subseteq S \cup {x}
  PROVE  /\ IsFiniteSet(T) /\ Cardinality(S) \in Nat /\ Cardinality(T) \in Nat
         /\ Cardinality(T) <= Cardinality(S) + 1
         /\ T \subseteq S => Cardinality(T) <= Cardinality(S)
         /\ x \in S /\ T \subseteq S \ {x} => Cardinality(T) + 1 <= Cardinality(S)
<1>1. IsFiniteSet(S \cup {x}) /\ Cardinality(S \cup {x}) \in Nat /\ Cardinality(S) \in Nat
      /\ Cardinality(S \cup {x}) <= Cardinality(S) + 1
  BY FS_AddElement, FS_CardinalityType
<1>2. IsFiniteSet(T) /\ Cardinality(T) \in Nat /\ Cardinality(T) <= Cardinality(S \cup {x})
  BY <1>1, FS_Subset, FS_CardinalityType
<1>3. T \subseteq S => Cardinality(T) <= Cardinality(S)
  BY FS_Subset
<1>4. ASSUME x \in S, T \subseteq S \ {x}
      PROVE  Cardinality(T) + 1 <= Cardinality(S)
  <2>1. IsFiniteSet(S \ {x}) /\ Cardinality(S \ {x}) = Cardinality(S) - 1
    BY <1>4, FS_RemoveElement
  <2>2. Cardinality(T) <= Cardinality(S \ {x})
    BY <1>4, <2>1, FS_Subset
  <2> QED BY <1>1, <1>2, <2>1, <2>2
<1> QED BY <1>1, <1>2, <1>3, <1>4

\* A step that enters nothing keeps it.
LEMMA LoadStays ==
  ASSUME LoadInv, begun' \in Nat, begun <= begun', begun' <= does.steps,
         UNCHANGED <<libraries, loaded, does>>,
         DOMAIN nativeCall' = Method, DOMAIN registered' = Method, DOMAIN call' = Caller,
         \A u \in Caller : call'[u] = call[u] \/ call'[u].what \notin {"load", "init"}
  PROVE  LoadInv'
<1>1. \A path : Loading(path)' \subseteq Loading(path)
  BY DEF Loading
<1>2. ASSUME NEW path \in Native!Path
      PROVE  /\ IsFiniteSet(Loading(path)')
             /\ loaded[path] + Cardinality(Loading(path)') <= begun'
  <2>1. IsFiniteSet(Loading(path)) /\ loaded[path] + Cardinality(Loading(path)) <= begun
        /\ loaded[path] \in Nat /\ begun \in Nat
    BY DEF LoadInv
  <2>2. IsFiniteSet(Loading(path)') /\ Cardinality(Loading(path)') <= Cardinality(Loading(path))
    BY <1>1, <2>1, FS_Subset
  <2>3. Cardinality(Loading(path)) \in Nat /\ Cardinality(Loading(path)') \in Nat
    BY <2>1, <2>2, FS_CardinalityType
  <2> QED BY <2>1, <2>2, <2>3
<1> QED BY <1>2 DEF LoadInv

\* Whatever the threads do, each loading was begun: LibraryBinder's operations.
LEMMA LoadKept == LoadInv /\ Native!Next => LoadInv'
<1> SUFFICES ASSUME LoadInv, Native!Next PROVE LoadInv'
  OBVIOUS
<1>0. /\ does.steps \in Nat /\ begun \in Nat /\ begun <= does.steps
      /\ DOMAIN nativeCall = Method /\ DOMAIN registered = Method /\ DOMAIN call = Caller
  BY AsJavaAssumption DEF LoadInv, Native!IsSetting
<1>1. ASSUME NEW t \in Caller, NEW path \in Native!Path, Native!LoadKnown(t, path)
      PROVE  LoadInv'
  BY <1>0, <1>1, LoadStays DEF Native!LoadKnown, Native!Begin
<1>2. ASSUME NEW t \in Caller, NEW path \in Native!Path, Native!LoadUnknown(t, path)
      PROVE  LoadInv'
  <2>1. /\ begun' = begun + 1 /\ begun < does.steps /\ UNCHANGED does
        /\ UNCHANGED <<libraries, loaded, nativeCall, registered>>
        /\ DOMAIN call' = Caller
        /\ call'[t].what = "load" /\ call'[t].of = path
        /\ \A u \in Caller \ {t} : call'[u] = call[u]
    BY <1>0, <1>2 DEF Native!LoadUnknown, Native!Begin, Native!Enter
  <2>2. \A p : Loading(p)' \subseteq Loading(p) \cup {t}
    BY <2>1 DEF Loading
  <2>3. \A p \in Native!Path : IsFiniteSet(Loading(p))
        /\ loaded[p] + Cardinality(Loading(p)) <= begun /\ loaded[p] \in Nat
    BY DEF LoadInv
  <2>4. \A p \in Native!Path : /\ IsFiniteSet(Loading(p)') /\ Cardinality(Loading(p)) \in Nat
                               /\ Cardinality(Loading(p)') \in Nat
                               /\ Cardinality(Loading(p)') <= Cardinality(Loading(p)) + 1
    BY <2>2, <2>3, OneMore
  <2>5. \A p \in Native!Path : loaded[p] + Cardinality(Loading(p)') <= begun + 1
    BY <1>0, <2>3, <2>4
  <2>6. \A u \in Caller : call'[u].what \in {"load", "init"} => call'[u].of \in Native!Path
    BY <2>1 DEF LoadInv
  <2> QED BY <1>0, <2>1, <2>4, <2>5, <2>6 DEF LoadInv
<1>3. ASSUME NEW t \in Caller, Native!PutLibrary(t)
      PROVE  LoadInv'
  <2>1. /\ UNCHANGED <<begun, does, loaded, nativeCall, registered>>
        /\ libraries' = libraries \cup {call[t].of}
        /\ call[t].what = "load" /\ DOMAIN call' = Caller
        /\ call'[t].what = "init" /\ call'[t].of = call[t].of
        /\ \A u \in Caller \ {t} : call'[u] = call[u]
    BY <1>0, <1>3 DEF Native!PutLibrary, Native!Entered, Native!Enter
  <2>2. \A p : Loading(p)' = Loading(p)
    BY <2>1 DEF Loading
  <2>3. call[t].of \in Native!Path
    BY <2>1 DEF LoadInv
  <2>4. \A u \in Caller : call'[u].what \in {"load", "init"} => call'[u].of \in Native!Path
    BY <2>1, <2>3 DEF LoadInv
  <2>5. libraries' \subseteq Native!Path
    BY <2>1, <2>3 DEF LoadInv
  <2>6. \A p \in Native!Path :
          /\ loaded'[p] \in Nat /\ IsFiniteSet(Loading(p)')
          /\ loaded'[p] + Cardinality(Loading(p)') <= begun'
    BY <2>1, <2>2 DEF LoadInv
  <2> QED BY <1>0, <2>1, <2>4, <2>5, <2>6 DEF LoadInv
<1>4. ASSUME NEW t \in Caller, Native!InitLibrary(t)
      PROVE  LoadInv'
  <2>1. /\ UNCHANGED <<begun, does, libraries, nativeCall, registered>>
        /\ call[t].what = "init" /\ DOMAIN call' = Caller
        /\ call'[t].what = "nothing"
        /\ \A u \in Caller \ {t} : call'[u] = call[u]
    BY <1>0, <1>4 DEF Native!InitLibrary, Native!Leave, Native!Idle
  <2>2. \/ loaded' = loaded
        \/ loaded' = [loaded EXCEPT ![call[t].of] = @ + 1]
    BY <1>4 DEF Native!InitLibrary
  <2>3. call[t].of \in Native!Path
    BY <2>1 DEF LoadInv
  <2>4. \A p : /\ Loading(p)' \subseteq Loading(p)
               /\ p = call[t].of => t \in Loading(p) /\ Loading(p)' \subseteq Loading(p) \ {t}
    BY <2>1 DEF Loading
  <2>5. \A p \in Native!Path : IsFiniteSet(Loading(p))
        /\ loaded[p] + Cardinality(Loading(p)) <= begun /\ loaded[p] \in Nat
    BY DEF LoadInv
  <2>6. \A p \in Native!Path :
          /\ IsFiniteSet(Loading(p)') /\ Cardinality(Loading(p)) \in Nat
          /\ Cardinality(Loading(p)') \in Nat
          /\ Cardinality(Loading(p)') <= Cardinality(Loading(p))
          /\ p = call[t].of => Cardinality(Loading(p)') + 1 <= Cardinality(Loading(p))
    BY <2>4, <2>5, OneMore
  <2>7. /\ loaded' \in [Native!Path -> Nat]
        /\ \A p \in Native!Path :
             \/ loaded'[p] = loaded[p]
             \/ p = call[t].of /\ loaded'[p] = loaded[p] + 1
    BY <2>2 DEF LoadInv
  <2>8. \A p \in Native!Path :
          /\ loaded'[p] \in Nat
          /\ loaded'[p] + Cardinality(Loading(p)') <= begun
    BY <1>0, <2>5, <2>6, <2>7
  <2>9. \A u \in Caller : call'[u].what \in {"load", "init"} => call'[u].of \in Native!Path
    BY <2>1 DEF LoadInv
  <2>10. libraries' \subseteq Native!Path /\ does' \in LibraryPrograms
    BY <2>1 DEF LoadInv
  <2> QED BY <1>0, <2>1, <2>6, <2>7, <2>8, <2>9, <2>10 DEF LoadInv
<1>5. ASSUME NEW t \in Caller, Native!StoreNativeCall(t)
      PROVE  LoadInv'
  <2>1. /\ UNCHANGED <<begun, does, libraries, loaded, registered>>
        /\ DOMAIN call' = Caller /\ DOMAIN nativeCall' = Method
        /\ call'[t].what = "nothing"
        /\ \A u \in Caller \ {t} : call'[u] = call[u]
    BY <1>0, <1>5 DEF Native!StoreNativeCall, Native!Leave, Native!Idle
  <2> QED BY <1>0, <2>1, LoadStays
<1>6. ASSUME NEW t \in Caller, NEW path \in Native!Path,
             Native!FindLibraryEntry(t, path, Native!OnLoad)
      PROVE  LoadInv'
  BY <1>0, <1>6, LoadStays DEF Native!FindLibraryEntry, Native!Begin
<1>7. ASSUME NEW t \in Caller, NEW m \in Method, Native!InvokeKnown(t, m)
      PROVE  LoadInv'
  BY <1>0, <1>7, LoadStays DEF Native!InvokeKnown, Native!Begin
<1>8. ASSUME NEW t \in Caller, NEW m \in Method, Native!InvokeUnknown(t, m)
      PROVE  LoadInv'
  <2>1. /\ begun' = begun + 1 /\ begun < does.steps /\ UNCHANGED does
        /\ UNCHANGED <<libraries, loaded, nativeCall, registered>>
        /\ \/ UNCHANGED call
           \/ \E f : Native!Enter(t, "invoke", m, f, Native!JavaFunctions(m))
    BY <1>8 DEF Native!InvokeUnknown, Native!Begin
  <2>2. DOMAIN call' = Caller
        /\ \A u \in Caller : call'[u] = call[u] \/ call'[u].what \notin {"load", "init"}
    BY <1>0, <2>1 DEF Native!Enter
  <2> QED BY <1>0, <2>1, <2>2, LoadStays
<1>9. ASSUME NEW t \in Caller, NEW m \in Method, NEW null \in BOOLEAN,
             Native!RegisterNatives(t, m, null)
      PROVE  LoadInv'
  <2>1. DOMAIN nativeCall' = Method /\ DOMAIN registered' = Method
    BY <1>0, <1>9 DEF Native!RegisterNatives
  <2> QED BY <1>0, <1>9, <2>1, LoadStays DEF Native!RegisterNatives, Native!Begin
<1>10. ASSUME NEW t \in Caller, NEW class, Native!UnregisterNatives(t, class)
       PROVE  LoadInv'
  <2>1. DOMAIN nativeCall' = Method /\ DOMAIN registered' = Method
    BY <1>10 DEF Native!UnregisterNatives
  <2> QED BY <1>0, <1>10, <2>1, LoadStays DEF Native!UnregisterNatives, Native!Begin
<1> QED BY <1>1, <1>2, <1>3, <1>4, <1>5, <1>6, <1>7, <1>8, <1>9, <1>10 DEF Native!Next

\* A loaded library exports f under a name of m.
Has(m, f) ==
  f \in libraries \X {Native!Short(m), Native!Long(m)} /\ f[2] \in Native!Exports(f[1])

\* What a thread may be in, if there are no races.
MayDo(c) ==
  \/ c = Native!Idle
  \/ /\ c.what = "load" /\ c.of \in Native!Path \ libraries
     /\ Library[c.of].version <= Native!LatestVersion
  \/ /\ c.what = "init" /\ c.of \in libraries /\ loaded[c.of] = 0
     /\ Library[c.of].version <= Native!LatestVersion
  \/ /\ c.what = "invoke" /\ c.of \in Method /\ registered[c.of] = None
     /\ Has(c.of, c.found)

\* A library that is entered is initialized, or is being so; what was found
\* is still exported, and what was registered is still stored.
CalmInv ==
  /\ agreed
  /\ \A t, u \in Caller : call[t] # Native!Idle /\ call[u] # Native!Idle => t = u
  /\ \A t \in Caller : MayDo(call[t])
  /\ \A e \in functions : /\ e = <<e[1], <<e[2][1], e[1]>>>> /\ e[2][1] \in libraries
                          /\ e[1] \in Native!Exports(e[2][1])
  /\ \A path \in Native!Path :
       /\ path \in libraries /\ Native!HasOnLoad(path) =>
            loaded[path] > 0 \/ \E t \in Caller : call[t].what = "init" /\ call[t].of = path
       /\ path \notin libraries => loaded[path] = 0
  /\ \A m \in Method :
       /\ registered[m] = None /\ nativeCall[m] # None => Has(m, nativeCall[m])
       /\ registered[m] # None => /\ registered[m] = Native!Own(m)
                                  /\ nativeCall[m] = Native!Own(m)

\* Without the deeds of Libraries nothing else happens between.
NativeInv == LoadInv /\ (does.deeds = {} => CalmInv)

\* Nothing is loaded, found or registered at first.
LEMMA CalmBegins == Native!Init => CalmInv
BY DEF CalmInv, MayDo, Native!Init, Native!Idle

\* If nobody is in an operation, nothing that a loaded library has is too early.
LEMMA MayRunIt ==
  ASSUME LoadInv, CalmInv, NEW m \in Method, registered[m] = None, NEW f, Has(m, f), NEW allowed,
         f \in allowed, \A t \in Caller : call[t].what # "init"
  PROVE  Native!MayRun(f, allowed)
<1>1. f[1] \in libraries
  BY DEF Has
<1>2. f[1] \in Native!Path /\ Native!HasOnLoad(f[1]) => loaded[f[1]] > 0
  BY <1>1 DEF CalmInv
<1> QED BY <1>2 DEF Native!MayRun

\* What Java may run of a method that is not registered is what libraries have.
LEMMA JavaHas ==
  ASSUME NEW m, registered[m] = None, NEW f
  PROVE  f \in Native!JavaFunctions(m) <=> Has(m, f)
BY DEF Has, Native!JavaFunctions

\* What is found under the usual name is what Java finds.
LEMMA FoundIsJava ==
  ASSUME LoadInv, CalmInv, NEW m \in Method, registered[m] = None, ~Native!HasLetters(m),
         ~Native!HasOther(m)
  PROVE  /\ \A f \in Native!get_function(Native!native_method_name(m)) : Has(m, f)
         /\ Native!get_function(Native!native_method_name(m)) = {} => Native!JavaFunctions(m) = {}
<1>1. PICK name : name = Native!native_method_name(m)
  OBVIOUS
<1>2. name = IF Native!Overloads(m) = {} THEN Native!Short(m) ELSE Native!Long(m)
  BY <1>1, NameIsJava
<1>3. ASSUME NEW f \in Native!get_function(name)
      PROVE  Has(m, f)
  <2>1. f[1] \in libraries /\ f[2] = name /\ f = <<f[1], name>> /\ name \in Native!Exports(f[1])
    <3>1. CASE \E e \in functions : e[1] = name /\ f = e[2]
      BY <3>1 DEF CalmInv
    <3>2. CASE \E path \in libraries : name \in Native!Exports(path) /\ f = <<path, name>>
      BY <3>2
    <3> QED BY <1>3, <3>1, <3>2 DEF Native!get_function
  <2> QED BY <1>2, <2>1 DEF Has
<1>4. ASSUME Native!get_function(name) = {}, NEW f \in Native!JavaFunctions(m)
      PROVE  FALSE
  <2>1. f[1] \in libraries /\ f[2] \in {Native!Short(m), Native!Long(m)} /\ f[2] \in Native!Exports(f[1])
    BY <1>4, JavaHas DEF Has
  <2>2. f[2] = name
    BY <1>2, <2>1 DEF Native!HasOther
  <2> QED BY <1>4, <2>1, <2>2 DEF Native!get_function
<1> QED BY <1>1, <1>3, <1>4

\* Each operation of LibraryBinder and of Interpreter::invoke_native that nothing
\* interrupts keeps it, and agrees with JNI.
LEMMA CalmKept ==
  ASSUME LoadInv, does.deeds = {}, CalmInv, Native!Next
  PROVE  CalmInv'
<1>0. /\ DOMAIN nativeCall = Method /\ DOMAIN registered = Method /\ DOMAIN call = Caller
      /\ DOMAIN loaded = Native!Path /\ libraries \subseteq Native!Path
      /\ \A path \in Native!Path : loaded[path] \in Nat /\ Library[path].version \in Nat
  BY AsJavaAssumption DEF LoadInv, Native!IsSetting, Native!IsLibrary
<1>a. ASSUME NEW t \in Caller, Native!Begin(t)
      PROVE  \A u \in Caller : call[u] = Native!Idle /\ call[u].what # "init"
  BY <1>a DEF Native!Begin, Native!Idle
<1>1. ASSUME NEW t \in Caller, NEW path \in Native!Path, Native!LoadKnown(t, path)
      PROVE  CalmInv'
  <2>1. UNCHANGED <<libraries, loaded, functions, nativeCall, registered, call>> /\ agreed'
    BY <1>1 DEF Native!LoadKnown, Native!Outcome
  <2> QED BY <2>1 DEF CalmInv, MayDo, Has
<1>2. ASSUME NEW t \in Caller, NEW path \in Native!Path, Native!LoadUnknown(t, path)
      PROVE  CalmInv'
  <2>1. /\ UNCHANGED <<libraries, loaded, functions, nativeCall, registered>> /\ agreed'
        /\ path \notin libraries /\ DOMAIN call' = Caller
        /\ call'[t].what = "load" /\ call'[t].of = path
        /\ \A u \in Caller \ {t} : call'[u] = Native!Idle
    BY <1>0, <1>2, <1>a DEF Native!LoadUnknown, Native!Outcome, Native!Enter
  <2>2. Library[path].version <= Native!LatestVersion
    BY <1>0, <1>2 DEF Native!LoadUnknown, Native!LatestVersion
  <2>3. \A u \in Caller : MayDo(call[u])'
    BY <2>1, <2>2 DEF MayDo
  <2>4. \A p \in Native!Path : p \in libraries /\ Native!HasOnLoad(p) => loaded[p] > 0
    BY <1>2, <1>a DEF CalmInv, Native!LoadUnknown
  <2> QED BY <2>1, <2>3, <2>4 DEF CalmInv, Has
<1>3. ASSUME NEW t \in Caller, Native!PutLibrary(t)
      PROVE  CalmInv'
  <2>1. /\ UNCHANGED <<loaded, functions, nativeCall, registered>> /\ agreed'
        /\ libraries' = libraries \cup {call[t].of}
        /\ call[t].what = "load" /\ DOMAIN call' = Caller
        /\ call'[t].what = "init" /\ call'[t].of = call[t].of
        /\ \A u \in Caller \ {t} : call'[u] = call[u]
    BY <1>0, <1>3 DEF Native!PutLibrary, Native!Entered, Native!Enter, Native!Outcome
  <2>2. call[t].of \in Native!Path \ libraries /\ Library[call[t].of].version <= Native!LatestVersion
    BY <2>1 DEF CalmInv, MayDo, Native!Idle
  <2>3. loaded[call[t].of] = 0
    BY <2>2 DEF CalmInv
  <2>4. call[t] # Native!Idle
    BY <2>1 DEF Native!Idle
  <2>5. \A u \in Caller \ {t} : call'[u] = Native!Idle
    BY <2>1, <2>4 DEF CalmInv
  <2>6. \A u \in Caller : MayDo(call[u])'
    BY <2>1, <2>2, <2>3, <2>5 DEF MayDo
  <2>7. \A p \in libraries : Native!HasOnLoad(p) => loaded[p] > 0
    <3>1. \A u \in Caller : call[u].what # "init"
      BY <2>1, <2>4 DEF CalmInv, Native!Idle
    <3> QED BY <1>0, <3>1 DEF CalmInv
  <2>8. \A m \in Method : \A f : Has(m, f) => Has(m, f)'
    BY <2>1 DEF Has
  <2>9. \A p \in Native!Path :
          /\ p \in libraries' /\ Native!HasOnLoad(p) =>
               loaded'[p] > 0 \/ \E u \in Caller : call'[u].what = "init" /\ call'[u].of = p
          /\ p \notin libraries' => loaded'[p] = 0
    BY <2>1, <2>7 DEF CalmInv
  <2>10. \A u, v \in Caller : call'[u] # Native!Idle /\ call'[v] # Native!Idle => u = v
    BY <2>5
  <2>11. \A e \in functions' : /\ e = <<e[1], <<e[2][1], e[1]>>>> /\ e[2][1] \in libraries'
                               /\ e[1] \in Native!Exports(e[2][1])
    BY <2>1 DEF CalmInv
  <2>12. \A m \in Method :
           /\ registered'[m] = None /\ nativeCall'[m] # None => Has(m, nativeCall[m])'
           /\ registered'[m] # None => /\ registered'[m] = Native!Own(m)
                                       /\ nativeCall'[m] = Native!Own(m)
    BY <2>1, <2>8 DEF CalmInv
  <2> QED BY <2>1, <2>6, <2>9, <2>10, <2>11, <2>12 DEF CalmInv
<1>4. ASSUME NEW t \in Caller, Native!InitLibrary(t)
      PROVE  CalmInv'
  <2>1. /\ UNCHANGED <<libraries, functions, nativeCall, registered>>
        /\ call[t].what = "init" /\ DOMAIN call' = Caller
        /\ call'[t] = Native!Idle
        /\ \A u \in Caller \ {t} : call'[u] = call[u]
    BY <1>0, <1>4 DEF Native!InitLibrary, Native!Leave
  <2>2. /\ call[t].of \in libraries /\ loaded[call[t].of] = 0
        /\ Library[call[t].of].version <= Native!LatestVersion
    BY <2>1 DEF CalmInv, MayDo, Native!Idle
  <2>3. agreed'
    BY <1>4, <2>2 DEF Native!InitLibrary, Native!Outcome
  <2>4. call[t] # Native!Idle
    BY <2>1 DEF Native!Idle
  <2>5. \A u \in Caller : call'[u] = Native!Idle
    BY <2>1, <2>4 DEF CalmInv
  <2>6. \/ Native!HasOnLoad(call[t].of) /\ loaded' = [loaded EXCEPT ![call[t].of] = @ + 1]
        \/ ~Native!HasOnLoad(call[t].of) /\ loaded' = loaded
    BY <1>4 DEF Native!InitLibrary
  <2>7. \A p \in Native!Path :
          /\ p = call[t].of /\ Native!HasOnLoad(p) => loaded'[p] = loaded[p] + 1
          /\ p # call[t].of => loaded'[p] = loaded[p]
    BY <1>0, <2>6
  <2>8. ASSUME NEW p \in Native!Path, p \in libraries, Native!HasOnLoad(p)
        PROVE  loaded'[p] > 0
    <3>1. CASE p = call[t].of
      BY <1>0, <2>7, <2>8, <3>1
    <3>2. CASE p # call[t].of
      <4>1. \A u \in Caller : ~(call[u].what = "init" /\ call[u].of = p)
        BY <2>4, <3>2 DEF CalmInv, Native!Idle
      <4> QED BY <2>7, <2>8, <3>2, <4>1 DEF CalmInv
    <3> QED BY <3>1, <3>2
  <2>9. \A p \in Native!Path \ libraries : loaded'[p] = 0
    BY <2>2, <2>7 DEF CalmInv
  <2>10. \A u \in Caller : MayDo(call[u])'
    BY <2>5 DEF MayDo
  <2> QED BY <2>1, <2>3, <2>5, <2>8, <2>9, <2>10 DEF CalmInv, Has
<1>5. ASSUME NEW t \in Caller, Native!StoreNativeCall(t)
      PROVE  CalmInv'
  <2>1. /\ UNCHANGED <<libraries, loaded, functions, registered>>
        /\ call[t].what = "invoke" /\ DOMAIN call' = Caller
        /\ call'[t] = Native!Idle
        /\ \A u \in Caller \ {t} : call'[u] = call[u]
        /\ nativeCall' = [nativeCall EXCEPT ![call[t].of] = call[t].found]
    BY <1>0, <1>5 DEF Native!StoreNativeCall, Native!Leave
  <2>2. call[t].of \in Method /\ registered[call[t].of] = None /\ Has(call[t].of, call[t].found)
    BY <2>1 DEF CalmInv, MayDo, Native!Idle
  <2>3. call[t] # Native!Idle
    BY <2>1 DEF Native!Idle
  <2>4. \A u \in Caller : call[u].what # "init" /\ call'[u] = Native!Idle
    BY <2>1, <2>3 DEF CalmInv, Native!Idle
  <2>5. agreed'
    <3>1. call[t].found \in Native!JavaFunctions(call[t].of)
      BY <2>2, JavaHas
    <3>2. Native!MayRun(call[t].found, call[t].allowed \cup Native!JavaFunctions(call[t].of))
      BY <2>2, <2>4, <3>1, MayRunIt
    <3> QED BY <1>5, <3>2 DEF Native!StoreNativeCall, Native!Outcome
  <2>6. \A u \in Caller : MayDo(call[u])'
    BY <2>4 DEF MayDo
  <2>7. \A m \in Method : nativeCall'[m] = IF m = call[t].of THEN call[t].found ELSE nativeCall[m]
    BY <1>0, <2>1
  <2>8. \A p \in Native!Path :
          /\ p \in libraries' /\ Native!HasOnLoad(p) => loaded'[p] > 0
          /\ p \notin libraries' => loaded'[p] = 0
    BY <2>1, <2>4 DEF CalmInv
  <2>9. \A m \in Method :
          /\ registered'[m] = None /\ nativeCall'[m] # None => Has(m, nativeCall[m])'
          /\ registered'[m] # None => /\ registered'[m] = Native!Own(m)
                                      /\ nativeCall'[m] = Native!Own(m)
    BY <2>1, <2>2, <2>7 DEF CalmInv, Has
  <2> QED BY <2>1, <2>4, <2>5, <2>6, <2>8, <2>9 DEF CalmInv
<1>6. ASSUME NEW t \in Caller, NEW path \in Native!Path,
             Native!FindLibraryEntry(t, path, Native!OnLoad)
      PROVE  CalmInv'
  <2>1. UNCHANGED <<libraries, loaded, nativeCall, registered, call>> /\ path \in libraries
    BY <1>6 DEF Native!FindLibraryEntry
  <2>2. \A p \in Native!Path \ {path} : Native!OnLoad \notin Native!Exports(p)
    BY <1>6 DEF Native!FindLibraryEntry
  <2>3. \A f \in Native!get_function(Native!OnLoad) :
          f = <<path, Native!OnLoad>> /\ Native!OnLoad \in Native!Exports(path)
    BY <1>0, <2>2 DEF CalmInv, Native!get_function
  <2>4. Native!get_function(Native!OnLoad) = {} => Native!OnLoad \notin Native!Exports(path)
    BY <2>1 DEF Native!get_function
  <2>5. \/ UNCHANGED functions
        \/ /\ functions' = functions \cup {<<Native!OnLoad, <<path, Native!OnLoad>>>>}
           /\ Native!OnLoad \in Native!Exports(path)
    BY <1>6, <2>3 DEF Native!FindLibraryEntry, Native!Remember
  <2>6. agreed'
    BY <1>6, <2>3, <2>4 DEF Native!FindLibraryEntry, Native!Outcome
  <2>7. \A e \in functions' : /\ e = <<e[1], <<e[2][1], e[1]>>>> /\ e[2][1] \in libraries'
                              /\ e[1] \in Native!Exports(e[2][1])
    BY <2>1, <2>5 DEF CalmInv
  <2> QED BY <2>1, <2>6, <2>7 DEF CalmInv, MayDo, Has
<1>7. ASSUME NEW t \in Caller, NEW m \in Method, Native!InvokeKnown(t, m)
      PROVE  CalmInv'
  <2>1. UNCHANGED <<libraries, loaded, functions, nativeCall, registered, call>>
        /\ nativeCall[m] # None /\ agreed' = Native!MayRun(nativeCall[m], Native!JavaFunctions(m))
    BY <1>7 DEF Native!InvokeKnown, Native!Outcome
  <2>2. CASE registered[m] = None
    <3>1. Has(m, nativeCall[m])
      BY <2>1, <2>2 DEF CalmInv
    <3>2. nativeCall[m] \in Native!JavaFunctions(m)
      BY <2>2, <3>1, JavaHas
    <3>3. \A u \in Caller : call[u].what # "init"
      BY <1>7, <1>a DEF Native!InvokeKnown
    <3>4. agreed'
      BY <2>1, <2>2, <3>1, <3>2, <3>3, MayRunIt
    <3> QED BY <2>1, <3>4 DEF CalmInv, MayDo, Has
  <2>3. CASE registered[m] # None
    <3>1. nativeCall[m] = <<None, m>> /\ registered[m] = <<None, m>>
      BY <2>3 DEF CalmInv, Native!Own
    <3>2. None \notin Native!Path
      BY AsJavaAssumption DEF Native!IsSetting
    <3>3. agreed'
      BY <2>1, <2>3, <3>1, <3>2 DEF Native!MayRun, Native!JavaFunctions
    <3> QED BY <2>1, <3>3 DEF CalmInv, MayDo, Has
  <2> QED BY <2>2, <2>3
<1>8. ASSUME NEW t \in Caller, NEW m \in Method, Native!InvokeUnknown(t, m)
      PROVE  CalmInv'
  <2>1. /\ UNCHANGED <<libraries, loaded, nativeCall, registered>> /\ nativeCall[m] = None
        /\ ~Native!HasOther(m) /\ ~Native!HasLetters(m)
    BY <1>8 DEF Native!InvokeUnknown
  <2>2. registered[m] = None
    BY <2>1 DEF CalmInv
  <2> DEFINE name == Native!native_method_name(m)
  <2>3. /\ \A f \in Native!get_function(name) : Has(m, f)
        /\ Native!get_function(name) = {} => Native!JavaFunctions(m) = {}
    BY <2>1, <2>2, FoundIsJava
  <2>4. \A f \in Native!get_function(name) :
          /\ <<name, f>> = <<name, <<f[1], name>>>> /\ f[1] \in libraries
          /\ name \in Native!Exports(f[1])
    BY DEF CalmInv, Native!get_function
  <2> HIDE DEF name
  <2>5. CASE UNCHANGED <<functions, call>> /\ agreed'
    BY <2>1, <2>5 DEF CalmInv, MayDo, Has
  <2>6. ASSUME NEW f \in Native!get_function(name),
               functions' = functions \cup {<<name, f>>}, agreed',
               Native!Enter(t, "invoke", m, f, Native!JavaFunctions(m))
        PROVE  CalmInv'
    <3>1. /\ DOMAIN call' = Caller
          /\ call'[t].what = "invoke" /\ call'[t].of = m /\ call'[t].found = f
          /\ \A u \in Caller \ {t} : call'[u] = Native!Idle
      BY <1>0, <1>8, <1>a, <2>6 DEF Native!Enter, Native!InvokeUnknown
    <3>2. \A u \in Caller : MayDo(call[u])'
      BY <2>1, <2>2, <2>3, <3>1 DEF MayDo, Has
    <3>3. \A e \in functions' : /\ e = <<e[1], <<e[2][1], e[1]>>>> /\ e[2][1] \in libraries'
                                /\ e[1] \in Native!Exports(e[2][1])
      BY <2>1, <2>4, <2>6 DEF CalmInv
    <3>4. \A p \in Native!Path : p \in libraries /\ Native!HasOnLoad(p) => loaded[p] > 0
      BY <1>8, <1>a DEF CalmInv, Native!InvokeUnknown
    <3> QED BY <2>1, <2>6, <3>1, <3>2, <3>3, <3>4 DEF CalmInv, Has
  <2> QED BY <1>8, <2>3, <2>5, <2>6 DEF Native!InvokeUnknown, Native!Outcome, Native!Remember, name
<1>9. ASSUME NEW t \in Caller, NEW m \in Method, NEW null \in BOOLEAN,
             Native!RegisterNatives(t, m, null)
      PROVE  CalmInv'
  <2>1. UNCHANGED <<libraries, loaded, functions, call>> /\ agreed'
    BY <1>9 DEF Native!RegisterNatives, Native!Outcome
  <2>2. \A u \in Caller : call'[u] = Native!Idle
    BY <1>9, <1>a, <2>1 DEF Native!RegisterNatives
  <2>3. \A n \in Method :
          \/ registered'[n] = registered[n] /\ nativeCall'[n] = nativeCall[n]
          \/ registered'[n] = Native!Own(n) /\ nativeCall'[n] = Native!Own(n)
    BY <1>0, <1>9 DEF Native!RegisterNatives
  <2>4. \A n \in Method :
          /\ registered'[n] = None /\ nativeCall'[n] # None => Has(n, nativeCall[n])'
          /\ registered'[n] # None => /\ registered'[n] = Native!Own(n)
                                      /\ nativeCall'[n] = Native!Own(n)
    BY <2>1, <2>3 DEF CalmInv, Has
  <2> QED BY <2>1, <2>2, <2>4 DEF CalmInv, MayDo
<1>10. ASSUME NEW t \in Caller, NEW class, Native!UnregisterNatives(t, class)
       PROVE  CalmInv'
  <2>1. UNCHANGED <<libraries, loaded, functions, call>> /\ agreed'
    BY <1>10 DEF Native!UnregisterNatives, Native!Outcome
  <2>2. \A u \in Caller : call'[u] = Native!Idle
    BY <1>10, <1>a, <2>1 DEF Native!UnregisterNatives
  <2>3. \A n \in Method :
          \/ registered'[n] = registered[n] /\ nativeCall'[n] = nativeCall[n]
          \/ registered'[n] = None /\ nativeCall'[n] = None
    BY <1>10 DEF Native!UnregisterNatives
  <2>4. \A n \in Method :
          /\ registered'[n] = None /\ nativeCall'[n] # None => Has(n, nativeCall[n])'
          /\ registered'[n] # None => /\ registered'[n] = Native!Own(n)
                                      /\ nativeCall'[n] = Native!Own(n)
    BY <2>1, <2>3 DEF CalmInv, Has
  <2> QED BY <2>1, <2>2, <2>4 DEF CalmInv, MayDo
<1> QED BY <1>1, <1>2, <1>3, <1>4, <1>5, <1>6, <1>7, <1>8, <1>9, <1>10 DEF Native!Next

\* A native method runs the function that JNI has for it, registered or exported by
\* a library that is initialized, and each library is initialized once, whatever
\* libraries, methods and threads there are, unless something is done that
\* Libraries lists.  So LibraryBinder's four tables agree.
THEOREM NativesHaveJava == Spec => []NativesAsJava
<1>1. Init => (part = "natives" => NativeInv)
  BY LoadBegins, CalmBegins DEF Init, NativeInv
<1>2. (part = "natives" => NativeInv) /\ [Next]_vars => (part = "natives" => NativeInv)'
  <2> SUFFICES ASSUME part = "natives" => NativeInv, [Next]_vars, part' = "natives"
               PROVE  NativeInv'
    OBVIOUS
  <2>1. CASE UNCHANGED vars
    BY <2>1 DEF vars, natives, NativeInv, LoadInv, Loading, CalmInv, MayDo, Has,
       Native!JavaFunctions
  <2>2. CASE Next
    <3>1. part = "natives" /\ Native!Next /\ NativeInv
      BY <2>2 DEF Next
    <3>2. UNCHANGED does
      BY <3>1 DEF Native!Next, Native!LoadKnown, Native!LoadUnknown, Native!PutLibrary,
         Native!InitLibrary, Native!FindLibraryEntry, Native!InvokeKnown, Native!InvokeUnknown,
         Native!StoreNativeCall, Native!RegisterNatives, Native!UnregisterNatives, Native!Begin
    <3> QED BY <3>1, <3>2, LoadKept, CalmKept DEF NativeInv
  <2> QED BY <2>1, <2>2
<1>3. (part = "natives" => NativeInv) => NativesAsJava
  <2> SUFFICES ASSUME part = "natives", NativeInv PROVE Native!NativesAsJava
    BY DEF NativesAsJava
  <2>1. does.steps \in Nat
    BY AsJavaAssumption DEF NativeInv, LoadInv, Native!IsSetting
  <2>2. \A path \in Native!Path : loaded[path] \in Nat /\ loaded[path] <= begun
    <3> TAKE path \in Native!Path
    <3>1. loaded[path] \in Nat /\ IsFiniteSet(Loading(path)) /\ begun \in Nat
          /\ loaded[path] + Cardinality(Loading(path)) <= begun
      BY DEF NativeInv, LoadInv
    <3>2. Cardinality(Loading(path)) \in Nat
      BY <3>1, FS_CardinalityType
    <3> QED BY <3>1, <3>2
  <2>3. \A path \in Native!Path : loaded[path] \in 0 .. does.steps
    BY <2>1, <2>2 DEF NativeInv, LoadInv
  <2>4. Native!TypeOK
    BY <2>1, <2>3 DEF Native!TypeOK, NativeInv, LoadInv
  <2> QED BY <2>4 DEF Native!NativesAsJava, NativeInv, CalmInv
<1> QED BY <1>1, <1>2, <1>3, PTL DEF Spec

-----------------------------------------------------------------------------
(* What the class library asks.                                            *)

\* What is known of a class: arrays have a component of one dimension less.
LEMMA ClassesAre ==
  ASSUME NEW id \in Query!Class
  PROVE  /\ Described[id].dimensions \in Nat
         /\ Query!Kind(id) = "array" =>
              /\ Described[id].component \in Query!Class
              /\ Described[id].dimensions = Described[Described[id].component].dimensions + 1
              /\ Described[id].element = Described[Described[id].component].element
         /\ Query!Kind(id) # "array" =>
              /\ Described[id].dimensions = 0 /\ Described[id].element = id
              /\ Query!Kind(id) \in {"class", "interface", "primitive"}
         /\ Query!Kind(id) = "primitive" => Described[id].name[1] \in DOMAIN Query!Letter
         /\ Query!Kind(id) \in {"class", "interface"} =>
              /\ Described[id].name \in Seq(STRING)
              /\ Described[id].name # <<>> /\ Described[id].name[1] # "["
<1>1. Query!IsClass(id) /\ Described[id].dimensions \in Nat
  BY AsJavaAssumption DEF Query!IsSetting, Query!Class
<1> QED BY <1>1 DEF Query!IsClass, Query!Class, Query!Kind

\* What names are made of: the provers do not know that these are strings.
Marks == STRING \cup {"[", "L", ";"} \cup {Query!Letter[x] : x \in DOMAIN Query!Letter}

\* The n brackets of a descriptor.
Brackets(n) == [i \in 1 .. n |-> "["]

\* One dimension more is one bracket before the rest.
LEMMA OneBracketMore ==
  ASSUME NEW n \in Nat, NEW s \in Seq(Marks)
  PROVE  /\ Brackets(n + 1) \o s = <<"[">> \o (Brackets(n) \o s)
         /\ Brackets(0) \o s = s /\ Brackets(n) \o s \in Seq(Marks)
         /\ (Brackets(n + 1) \o s)[1] = "["
<1>0. "[" \in Marks
  BY DEF Marks
<1>1. Brackets(n) \in Seq(Marks) /\ Len(Brackets(n)) = n
  BY <1>0 DEF Brackets
<1>2. Brackets(n + 1) \in Seq(Marks) /\ Len(Brackets(n + 1)) = n + 1
  BY <1>0 DEF Brackets
<1>3. Brackets(0) = <<>>
  BY DEF Brackets
<1>4. <<"[">> \in Seq(Marks) /\ Len(<<"[">>) = 1
  BY <1>0
<1>5. Brackets(n + 1) = <<"[">> \o Brackets(n)
  BY <1>1, <1>2, <1>4 DEF Brackets
<1>6. (Brackets(n + 1) \o s)[1] = "["
  BY <1>2 DEF Brackets
<1>7. /\ Brackets(0) \o s = s
      /\ Brackets(n) \o s \in Seq(Marks)
      /\ (<<"[">> \o Brackets(n)) \o s = <<"[">> \o (Brackets(n) \o s)
  BY <1>1, <1>3, <1>4
<1> QED BY <1>5, <1>6, <1>7

\* A sequence between two more elements.
LEMMA Between ==
  ASSUME NEW S, NEW a \in S, NEW b \in S, NEW s \in Seq(S)
  PROVE  <<a>> \o s \o <<b>> \in Seq(S)
<1>1. <<a>> \in Seq(S) /\ <<b>> \in Seq(S)
  OBVIOUS
<1>2. <<a>> \o s \in Seq(S)
  BY <1>1
<1> QED BY <1>1, <1>2

\* What resolve_by_descriptor is given of a class that is no array.
LEMMA SignIs ==
  ASSUME NEW id \in Query!Class, Query!Kind(id) # "array"
  PROVE  Query!Sign(id) \in Seq(Marks)
<1>1. CASE Query!Kind(id) = "primitive"
  <2>1. Query!Letter[Described[id].name[1]] \in Marks
    BY <1>1, ClassesAre DEF Marks
  <2> QED BY <1>1, <2>1 DEF Query!Sign
<1>2. CASE Query!Kind(id) # "primitive"
  <2>1. PICK name : name = Described[id].name
    OBVIOUS
  <2>2. name \in Seq(STRING)
    BY <1>2, <2>1, ClassesAre
  <2>3. /\ name = [i \in 1 .. Len(name) |-> name[i]] /\ Len(name) \in Nat
        /\ \A i \in 1 .. Len(name) : name[i] \in STRING
    BY <2>2
  <2>7. \A i \in 1 .. Len(name) : name[i] \in Marks
    BY <2>3 DEF Marks
  <2>4. name \in Seq(Marks)
    BY <2>3, <2>7
  <2>5. "L" \in Marks /\ ";" \in Marks
    BY DEF Marks
  <2>6. Query!Sign(id) = <<"L">> \o name \o <<";">>
    BY <1>2, <2>1 DEF Query!Sign
  <2>8. <<"L">> \o name \o <<";">> \in Seq(Marks)
    BY <2>4, <2>5, Between
  <2> QED BY <2>6, <2>8
<1> QED BY <1>1, <1>2

\* Some natural numbers have a least one.
LEMMA LeastNat ==
  ASSUME NEW T \in SUBSET Nat, T # {}
  PROVE  \E m \in T : \A n \in T : m <= n
<1> DEFINE R == OpToRel(<, Nat)
<1>1. IsWellFoundedOn(R, Nat)
  BY NatLessThanWellFounded
<1>2. \A x, y \in Nat : <<x, y>> \in R <=> x < y
  BY DEF OpToRel
<1> HIDE DEF R
<1>3. PICK m \in T : \A n \in T : ~(<<n, m>> \in R)
  BY <1>1, WFMin
<1>4. ASSUME NEW n \in T PROVE m <= n
  <2>1. m \in Nat /\ n \in Nat
    OBVIOUS
  <2>2. ~(n < m)
    BY <1>2, <1>3, <2>1
  <2> QED BY <2>1, <2>2
<1> QED BY <1>4
\* A class that is an array has a component with one dimension less, so that what
\* goes wrong for one class goes wrong for one that is none.
LEMMA LeastClass ==
  ASSUME NEW B \in SUBSET Query!Class, B # {}
  PROVE  \E id \in B : Query!Kind(id) = "array" => Described[id].component \notin B
<1> DEFINE T == {Described[id].dimensions : id \in B}
<1>1. T \in SUBSET Nat /\ T # {}
  BY ClassesAre
<1>2. PICK m \in T : \A n \in T : m <= n
  BY <1>1, LeastNat
<1>3. PICK id \in B : Described[id].dimensions = m
  BY <1>2
<1>4. ASSUME Query!Kind(id) = "array", Described[id].component \in B
      PROVE  FALSE
  <2>1. PICK n \in Nat : n = Described[Described[id].component].dimensions
    BY <1>4, ClassesAre
  <2>2. m = n + 1
    BY <1>3, <1>4, <2>1, ClassesAre
  <2>3. n \in T
    BY <1>4, <2>1
  <2>4. m <= n
    BY <1>2, <2>3
  <2> QED BY <2>1, <2>2, <2>4
<1> QED BY <1>3, <1>4

\* An array's element is no array.
LEMMA ElementsAre ==
  ASSUME NEW id \in Query!Class
  PROVE  Described[id].element \in Query!Class /\ Query!Kind(Described[id].element) # "array"
<1> DEFINE B == {c \in Query!Class : ~(/\ Described[c].element \in Query!Class
                                       /\ Query!Kind(Described[c].element) # "array")}
<1>1. ASSUME B # {} PROVE FALSE
  <2>1. PICK c \in B : Query!Kind(c) = "array" => Described[c].component \notin B
    BY <1>1, LeastClass
  <2>2. c \in Query!Class
    OBVIOUS
  <2>3. CASE Query!Kind(c) = "array"
    <3>1. /\ Described[c].component \in Query!Class
          /\ Described[c].element = Described[Described[c].component].element
      BY <2>2, <2>3, ClassesAre
    <3> QED BY <2>1, <2>3, <3>1
  <2>4. CASE Query!Kind(c) # "array"
    BY <2>2, <2>4, ClassesAre
  <2> QED BY <2>3, <2>4
<1> QED BY <1>1

\* The descriptor that load_array is given.
Given(id) == Brackets(Described[id].dimensions) \o Query!Sign(Described[id].element)

\* It begins with a bracket if the class is an array, and goes on with the component's.
LEMMA GivenIs ==
  ASSUME NEW id \in Query!Class
  PROVE  /\ Given(id) \in Seq(Marks)
         /\ Query!Kind(id) = "array" =>
              Given(id) = <<"[">> \o Given(Described[id].component) /\ Given(id)[1] = "["
         /\ Query!Kind(id) # "array" => Given(id) = Query!Sign(id)
<1>1. PICK s \in Seq(Marks) : s = Query!Sign(Described[id].element)
  BY ElementsAre, SignIs
<1>2. Given(id) \in Seq(Marks)
  BY <1>1, ClassesAre, OneBracketMore DEF Given
<1>3. CASE Query!Kind(id) = "array"
  <2>1. PICK n \in Nat : n = Described[Described[id].component].dimensions
    BY <1>3, ClassesAre
  <2>2. Described[id].dimensions = n + 1 /\ Given(id) = Brackets(n + 1) \o s
    BY <1>1, <1>3, <2>1, ClassesAre DEF Given
  <2>3. Given(Described[id].component) = Brackets(n) \o s
    BY <1>1, <1>3, <2>1, ClassesAre DEF Given
  <2>4. /\ Brackets(n + 1) \o s = <<"[">> \o (Brackets(n) \o s)
        /\ (Brackets(n + 1) \o s)[1] = "["
    BY OneBracketMore
  <2> QED BY <1>2, <1>3, <2>2, <2>3, <2>4
<1>4. CASE Query!Kind(id) # "array"
  <2>1. Given(id) = Brackets(0) \o s /\ s = Query!Sign(id)
    BY <1>1, <1>4, ClassesAre DEF Given
  <2> QED BY <1>2, <1>4, <2>1, OneBracketMore
<1> QED BY <1>3, <1>4

\* It is the descriptor that Java has, which is defined along the components.
LEMMA DescriptorIs ==
  ASSUME NEW id \in Query!Class
  PROVE  Query!JavaDescriptor(id) = Given(id)
<1> DEFINE Of(g) == g = [c \in Query!Class |->
                           IF Query!Kind(c) = "array" THEN <<"[">> \o g[Described[c].component]
                           ELSE Query!Sign(c)]
<1>1. Of([c \in Query!Class |-> Given(c)])
  <2>1. \A c \in Query!Class : Query!Kind(c) = "array" => Described[c].component \in Query!Class
    BY ClassesAre
  <2> QED BY <2>1, GivenIs
<1>2. PICK g : g = CHOOSE h : Of(h)
  OBVIOUS
<1>3. Of(g)
  BY <1>1, <1>2, Zenon
<1>4. Query!JavaDescriptor(id) = g[id]
  BY <1>2, Zenon DEF Query!JavaDescriptor
<1> DEFINE B == {c \in Query!Class : g[c] # Given(c)}
<1>5. ASSUME B # {} PROVE FALSE
  <2>1. PICK c \in B : Query!Kind(c) = "array" => Described[c].component \notin B
    BY <1>5, LeastClass
  <2>2. c \in Query!Class /\ g[c] # Given(c)
    OBVIOUS
  <2>3. g[c] = IF Query!Kind(c) = "array" THEN <<"[">> \o g[Described[c].component]
               ELSE Query!Sign(c)
    BY <1>3, <2>2
  <2>4. CASE Query!Kind(c) = "array"
    <3>1. Described[c].component \in Query!Class /\ g[Described[c].component] = Given(Described[c].component)
      BY <2>1, <2>2, <2>4, ClassesAre
    <3> QED BY <2>2, <2>3, <2>4, <3>1, GivenIs
  <2>5. CASE Query!Kind(c) # "array"
    BY <2>2, <2>3, <2>5, GivenIs
  <2> QED BY <2>4, <2>5
<1> QED BY <1>4, <1>5

\* Queries has a copy of the library's cardinality.
LEMMA SameCardinality == \A S : Query!Cardinality(S) = Cardinality(S)
BY Zenon DEF Query!Cardinality, Cardinality, Query!IsFiniteSet, IsFiniteSet

\* Without reflective calls every frame counts in JVM_GetCallerClass.
LEMMA CallerIsJava ==
  ASSUME NEW stack, NEW k \in Nat, DOMAIN stack = 1 .. k, NEW n \in Nat,
         \A i \in 1 .. k : ~stack[i].reflective
  PROVE  Query!CallerClass(stack, n) = Query!JavaCallerClass(stack, n)
<1> DEFINE counted == {i \in DOMAIN stack : ~stack[i].reflective}
           before(i) == {j \in counted : j < i}
           nth == {i \in counted : Query!Cardinality(before(i)) = n}
<1>1. counted = 1 .. k
  OBVIOUS
<1>2. \A i \in 1 .. k : Query!Cardinality(before(i)) = i - 1
  <2> TAKE i \in 1 .. k
  <2>1. before(i) = 1 .. (i - 1)
    BY <1>1
  <2>2. Cardinality(1 .. (i - 1)) = i - 1
    <3>1. 1 \in Int /\ i - 1 \in Int /\ (IF 1 > i - 1 THEN 0 ELSE (i - 1) - 1 + 1) = i - 1
      OBVIOUS
    <3> QED BY <3>1, FS_Interval
  <2> QED BY <2>1, <2>2, SameCardinality
<1> HIDE DEF before
<1>3. nth = {i \in 1 .. k : i = n + 1}
  BY <1>1, <1>2
<1>4. Query!JavaCallerClass(stack, n) =
        IF nth = {} THEN None ELSE stack[CHOOSE i \in nth : TRUE].class
  BY Zenon DEF Query!JavaCallerClass, before
<1> HIDE DEF nth
<1>5. CASE n + 1 \in 1 .. k
  <2>1. nth = {n + 1}
    BY <1>3, <1>5
  <2>2. (CHOOSE i \in nth : TRUE) = n + 1
    BY <2>1
  <2>3. nth # {}
    BY <2>1
  <2>4. Query!JavaCallerClass(stack, n) = stack[n + 1].class
    BY <1>4, <2>2, <2>3
  <2> QED BY <1>5, <2>4 DEF Query!CallerClass
<1>6. CASE n + 1 \notin 1 .. k
  <2>1. nth = {}
    BY <1>3, <1>6
  <2> QED BY <1>4, <1>6, <2>1 DEF Query!CallerClass
<1> QED BY <1>5, <1>6

\* The threads that the machine calls alive are so in Java.
QueryInv ==
  /\ threads \in [JavaThread -> {None, "RUNNABLE", "TERMINATED"}]
  /\ javaAlive \subseteq JavaThread
  /\ \A t \in JavaThread : threads[t] = "RUNNABLE" <=> t \in javaAlive
  /\ asks = {} => agreed

\* Each answer is the one of Java, or something is asked that Queries lists.
LEMMA QueryKept == QueryInv /\ Query!Next => QueryInv'
<1> SUFFICES ASSUME QueryInv, Query!Next PROVE QueryInv'
  OBVIOUS
<1>0. None \notin {"RUNNABLE", "TERMINATED"}
  BY AsJavaAssumption DEF Query!IsSetting
<1>1. ASSUME NEW ok, Query!Answer(ok), asks = {} => ok PROVE QueryInv'
  BY <1>1 DEF Query!Answer, QueryInv
<1>3. ASSUME NEW function, Query!CallIgnored(function) PROVE QueryInv'
  BY <1>1, <1>3 DEF Query!CallIgnored, Query!Known
<1>4. ASSUME NEW id \in Query!Class, Query!GetClassName(id) PROVE QueryInv'
  <2>1. ASSUME asks = {}
        PROVE  Query!to_java_class_name(Query!NameOf(id)) = Query!JavaName(id)
    <3>1. Query!Kind(id) # "primitive"
      BY <1>4, <2>1 DEF Query!GetClassName, Query!Known
    <3>2. CASE Query!Kind(id) = "array"
      <4>1. Query!NameOf(id) = Query!JavaDescriptor(id)
        BY <3>2, DescriptorIs DEF Query!NameOf, Given, Brackets
      <4> QED BY <3>2, <4>1 DEF Query!JavaName, Query!Dots, Query!to_java_class_name
    <3>3. CASE Query!Kind(id) # "array"
      <4>1. Query!Kind(id) \in {"class", "interface"}
        BY <3>1, <3>3, ClassesAre
      <4> QED BY <3>3, <4>1 DEF Query!NameOf, Query!JavaName, Query!Dots, Query!to_java_class_name
    <3> QED BY <3>2, <3>3
  <2> QED BY <1>1, <1>4, <2>1 DEF Query!GetClassName
<1>5. ASSUME NEW id \in Query!Class, Query!GetClassSignature(id) PROVE QueryInv'
  <2>1. ASSUME asks = {}
        PROVE  Query!NameOf(id) = Query!JavaDescriptor(id)
    <3>1. Query!Kind(id) \notin {"class", "interface"}
      BY <1>5, <2>1 DEF Query!GetClassSignature, Query!Known
    <3> QED BY <3>1, DescriptorIs DEF Query!NameOf, Given, Brackets
  <2> QED BY <1>1, <1>5, <2>1 DEF Query!GetClassSignature
<1>6. ASSUME NEW id \in Query!Class, Query!IsInterface(id) PROVE QueryInv'
  <2>1. Query!Kind(id) \in {"class", "interface", "array", "primitive"}
    BY ClassesAre
  <2> QED BY <1>1, <1>6, <2>1 DEF Query!IsInterface, Query!Known
<1>7. ASSUME NEW id \in Query!Class, Query!IsArrayClass(id) PROVE QueryInv'
  <2>1. CASE Query!Kind(id) = "array"
    <3>1. Query!NameOf(id) = Given(id)
      BY <2>1 DEF Query!NameOf, Given, Brackets
    <3>2. Query!NameOf(id)[1] = "["
      BY <2>1, <3>1, GivenIs
    <3> QED BY <1>1, <1>7, <2>1, <3>2 DEF Query!IsArrayClass
  <2>2. CASE Query!Kind(id) = "primitive"
    <3>1. Query!NameOf(id) = Given(id)
      BY <2>2 DEF Query!NameOf, Given, Brackets
    <3>2. Query!NameOf(id) = <<Query!Letter[Described[id].name[1]]>>
      BY <2>2, <3>1, GivenIs DEF Query!Sign
    <3>3. Query!Letter[Described[id].name[1]] # "["
      BY <2>2, ClassesAre DEF Query!Letter
    <3>4. Query!NameOf(id)[1] # "["
      BY <3>2, <3>3
    <3> QED BY <1>1, <1>7, <2>2, <3>4 DEF Query!IsArrayClass
  <2>3. CASE Query!Kind(id) \in {"class", "interface"}
    <3>1. Query!NameOf(id)[1] # "["
      BY <2>3, ClassesAre DEF Query!NameOf
    <3> QED BY <1>1, <1>7, <2>3, <3>1 DEF Query!IsArrayClass
  <2> QED BY <2>1, <2>2, <2>3, ClassesAre
<1>8. ASSUME NEW id, Query!GetComponentType(id) PROVE QueryInv'
  BY <1>1, <1>8 DEF Query!GetComponentType, Query!Known
<1>9. ASSUME NEW name, Query!FindPrimitiveClass(name) PROVE QueryInv'
  BY <1>1, <1>9 DEF Query!FindPrimitiveClass, Query!Known
<1>10. ASSUME Query!GetClassConstantPool PROVE QueryInv'
  BY <1>1, <1>10 DEF Query!GetClassConstantPool, Query!Known
<1>11. ASSUME NEW stack \in Stacks, NEW n \in 0 .. Len(stack), Query!GetCallerClass(stack, n)
       PROVE  QueryInv'
  <2>1. PICK k \in Nat : DOMAIN stack = 1 .. k /\ Len(stack) = k
    BY AsJavaAssumption DEF Query!IsSetting
  <2>2. n \in Nat
    BY <2>1
  <2>3. ASSUME asks = {}
        PROVE  Query!CallerClass(stack, n) = Query!JavaCallerClass(stack, n)
    <3>1. \A i \in 1 .. k : ~stack[i].reflective
      BY <1>11, <2>1, <2>3 DEF Query!GetCallerClass, Query!Known
    <3> QED BY <2>1, <2>2, <3>1, CallerIsJava
  <2> QED BY <1>1, <1>11, <2>3 DEF Query!GetCallerClass
<1>12. ASSUME NEW index, Query!GetMethodIx(index) PROVE QueryInv'
  <2>1. PICK ok : Query!Answer(ok)
    BY <1>12 DEF Query!GetMethodIx
  <2>2. asks # {}
    BY <1>12 DEF Query!GetMethodIx, Query!Known
  <2> QED BY <1>1, <2>1, <2>2
<1>13. ASSUME NEW t \in JavaThread, Query!StartThread(t) PROVE QueryInv'
  BY <1>13 DEF Query!StartThread, QueryInv
<1>14. ASSUME NEW t \in JavaThread, Query!EndThread(t) PROVE QueryInv'
  BY <1>14 DEF Query!EndThread, QueryInv
<1>15. ASSUME NEW t \in JavaThread, Query!IsThreadAlive(t) PROVE QueryInv'
  <2>1. (threads[t] # None /\ threads[t] \notin {"NEW", "TERMINATED"}) = (t \in javaAlive)
    BY <1>0 DEF QueryInv
  <2> QED BY <1>1, <1>15, <2>1 DEF Query!IsThreadAlive
<1> QED BY <1>3, <1>4, <1>5, <1>6, <1>7, <1>8, <1>9, <1>10, <1>11, <1>12, <1>13, <1>14, <1>15
        DEF Query!Next

\* The class library learns of JVM.cpp what it would learn in Java: names and
\* signatures of classes of any dimension, callers on any stack, constant pools
\* and which threads are alive, unless it asks something that Queries lists.
THEOREM AnswersHaveJava == Spec => []AnswersAsJava
<1>1. Init => (part = "queries" => QueryInv)
  <2>1. None \notin {"RUNNABLE", "TERMINATED"}
    BY AsJavaAssumption DEF Query!IsSetting
  <2> QED BY <2>1 DEF Init, Query!Init, QueryInv
<1>2. (part = "queries" => QueryInv) /\ [Next]_vars => (part = "queries" => QueryInv)'
  <2> SUFFICES ASSUME part = "queries" => QueryInv, [Next]_vars, part' = "queries"
               PROVE  QueryInv'
    OBVIOUS
  <2>1. CASE UNCHANGED vars
    BY <2>1 DEF vars, queries, QueryInv
  <2>2. CASE Next
    <3>1. QueryInv /\ Query!Next
      BY <2>2 DEF Next
    <3> QED BY <3>1, QueryKept
  <2> QED BY <2>1, <2>2
<1>3. (part = "queries" => QueryInv) => AnswersAsJava
  BY DEF QueryInv, AnswersAsJava, Query!AnswersAsJava, Query!TypeOK
<1> QED BY <1>1, <1>2, <1>3, PTL DEF Spec

-----------------------------------------------------------------------------
(* The start.                                                              *)

\* What the end of the options from the i-th argument is, if end has those behind it.
EndFrom(end, i) ==
  IF i > Len(Start!argv) \/ ~Start!StartsWithDash(Start!argv[i]) THEN i
  ELSE IF Start!argv[i] \in Start!MultiToken /\ i < Len(Start!argv) THEN end[i + 2]
  ELSE end[i + 1]

\* What is known of a command line.
LEMMA LineIs ==
  ASSUME line \in CommandLines
  PROVE  /\ Start!IsLine(line) /\ Start!argv \in Seq(STRING) /\ Len(Start!argv) \in Nat
         /\ line.class \in 1 .. Len(Start!argv) + 1
BY AsJavaAssumption DEF Start!IsSetting, Start!IsLine, Start!argv

\* The recursion over the arguments has a solution: it looks only forward.
LEMMA EndsExist ==
  ASSUME line \in CommandLines, NEW n \in Nat, n = Len(Start!argv)
  PROVE  \E g : g = [i \in 1 .. n + 1 |-> EndFrom(g, i)]
<1> DEFINE F == [1 .. n + 1 -> 1 .. n + 1]
           Solves(g, k) == \A i \in 1 .. n + 1 : k <= i => g[i] = EndFrom(g, i)
           T == {k \in 1 .. n + 1 : \E g \in F : Solves(g, k)}
<1>1. \A g \in F : \A i \in 1 .. n + 1 : EndFrom(g, i) \in 1 .. n + 1
  BY DEF EndFrom
<1>2. n + 1 \in T
  <2>1. [i \in 1 .. n + 1 |-> n + 1] \in F
    OBVIOUS
  <2>2. Solves([i \in 1 .. n + 1 |-> n + 1], n + 1)
    BY DEF EndFrom
  <2> QED BY <2>1, <2>2
<1>3. ASSUME NEW k \in T, k > 1
      PROVE  k - 1 \in T
  <2>1. PICK g \in F : Solves(g, k)
    BY <1>3
  <2>2. k \in 1 .. n + 1 /\ k - 1 \in 1 .. n + 1
    BY <1>3
  <2> DEFINE h == [g EXCEPT ![k - 1] = EndFrom(g, k - 1)]
  <2>3. h \in F
    BY <1>1, <2>2
  <2>4. \A i \in 1 .. n + 1 : i # k - 1 => h[i] = g[i]
    OBVIOUS
  <2>5. h[k - 1] = EndFrom(g, k - 1)
    BY <2>2
  <2> HIDE DEF h, F
  <2>6. \A i \in 1 .. n + 1 : k - 1 <= i => EndFrom(h, i) = EndFrom(g, i)
    <3> TAKE i \in 1 .. n + 1
    <3> HAVE k - 1 <= i
    <3>1. i <= n => h[i + 1] = g[i + 1]
      BY <2>2, <2>4
    <3>2. i < n => h[i + 2] = g[i + 2]
      BY <2>2, <2>4
    <3> QED BY <3>1, <3>2 DEF EndFrom
  <2>7. Solves(h, k - 1)
    <3> TAKE i \in 1 .. n + 1
    <3> HAVE k - 1 <= i
    <3>1. CASE i = k - 1
      BY <2>2, <2>5, <2>6, <3>1
    <3>2. CASE i # k - 1
      <4>1. k <= i
        BY <2>2, <3>2
      <4>2. g[i] = EndFrom(g, i)
        BY <2>1, <4>1
      <4> QED BY <2>4, <2>6, <3>2, <4>2
    <3> QED BY <3>1, <3>2
  <2> QED BY <2>2, <2>3, <2>7
<1>4. PICK m \in T : \A k \in T : m <= k
  <2>1. T \in SUBSET Nat /\ T # {}
    BY <1>2
  <2> QED BY <2>1, LeastNat
<1>5. m = 1
  <2>1. m \in 1 .. n + 1
    BY <1>4
  <2>2. m > 1 => m - 1 \in T
    BY <1>3
  <2>3. m > 1 => m <= m - 1
    BY <1>4, <2>2
  <2> QED BY <2>1, <2>3
<1>6. PICK g \in F : Solves(g, 1)
  BY <1>4, <1>5
<1>7. \A i \in 1 .. n + 1 : g[i] = EndFrom(g, i)
  BY <1>6
<1>8. g = [i \in 1 .. n + 1 |-> EndFrom(g, i)]
  BY <1>7
<1> QED BY <1>8

\* The launcher finds the class of the command line.
LEMMA EndIsClass ==
  ASSUME line \in CommandLines
  PROVE  Start!EndOfOptions = line.class
<1> DEFINE n == Len(Start!argv)
           then == line.starts \cup {line.class}
           Of(g) == g = [i \in 1 .. n + 1 |-> EndFrom(g, i)]
<1>1. n \in Nat /\ line.class \in 1 .. n + 1 /\ Start!IsLine(line)
  BY LineIs
<1>2. \E g : Of(g)
  BY <1>1, EndsExist
<1>3. PICK g : g = CHOOSE h : Of(h)
  OBVIOUS
<1>4. Of(g)
  BY <1>2, <1>3, Zenon
<1>5. Start!EndOfOptions = g[1]
  BY <1>3, Zenon DEF Start!EndOfOptions, EndFrom
<1>6. \A i \in 1 .. n + 1 : g[i] = EndFrom(g, i)
  BY <1>4
<1> HIDE DEF n, Of
<1>7. g[line.class] = line.class
  <2>1. line.class > n \/ ~Start!StartsWithDash(Start!argv[line.class])
    BY <1>1 DEF Start!IsLine, Start!StartsWithDash, Start!argv, n
  <2> QED BY <1>1, <1>6, <2>1 DEF EndFrom, n
<1>8. ASSUME NEW i \in line.starts
      PROVE  /\ i \in 1 .. n + 1 /\ i < line.class /\ i <= n
             /\ \E j \in then : i < j /\ g[i] = g[j]
  <2>1. i \in 1 .. line.class - 1
    BY <1>1 DEF Start!IsLine
  <2>2. i \in 1 .. n + 1 /\ i < line.class /\ i <= n
    BY <1>1, <2>1
  <2>3. \A j \in then : j <= line.class
    BY <1>1 DEF Start!IsLine
  <2>4. g[i] = EndFrom(g, i)
    BY <1>6, <2>2
  <2>5. CASE Start!argv[i] \in Start!MultiToken /\ i + 2 \in then
    <3>1. i + 2 <= n + 1
      BY <1>1, <2>2, <2>3, <2>5
    <3>2. i < n
      BY <1>1, <2>2, <3>1
    <3>3. g[i] = g[i + 2]
      BY <2>2, <2>4, <2>5, <3>2 DEF EndFrom, Start!StartsWithDash, n
    <3> QED BY <2>2, <2>5, <3>3
  <2>6. CASE Start!argv[i] \in Start!MultiToken /\ i = n
    <3>1. line.class = i + 1
      BY <1>1, <2>2, <2>6
    <3>2. g[i] = g[i + 1]
      BY <1>1, <2>2, <2>4, <2>6 DEF EndFrom, Start!StartsWithDash, n
    <3> QED BY <2>2, <3>1, <3>2
  <2>7. CASE Start!argv[i] \in DOMAIN Setting /\ i + 1 \in then
    <3>1. Start!argv[i] \notin Start!MultiToken
      BY <2>7, AsJavaAssumption DEF Start!IsSetting
    <3>2. g[i] = g[i + 1]
      BY <1>1, <2>2, <2>4, <2>7, <3>1 DEF EndFrom, Start!StartsWithDash, n
    <3> QED BY <2>2, <2>7, <3>2
  <2>8. \/ Start!argv[i] \in Start!MultiToken /\ i + 2 \in then
        \/ Start!argv[i] \in Start!MultiToken /\ i = n
        \/ Start!argv[i] \in DOMAIN Setting /\ i + 1 \in then
    BY <1>1 DEF Start!IsLine, Start!argv, n
  <2> QED BY <2>2, <2>5, <2>6, <2>7, <2>8
<1> DEFINE T == {k \in Nat : \E i \in then : k = line.class - i /\ g[i] # line.class}
<1>9. ASSUME T # {} PROVE FALSE
  <2>1. PICK m \in T : \A k \in T : m <= k
    BY <1>9, LeastNat
  <2>2. PICK i \in then : m = line.class - i /\ g[i] # line.class
    BY <2>1
  <2>3. i \in line.starts
    BY <1>7, <2>2
  <2>4. PICK j \in then : i < j /\ g[i] = g[j]
    BY <1>8, <2>3
  <2>5. /\ i \in 1 .. n + 1 /\ i < line.class /\ j \in 1 .. n + 1 /\ j <= line.class
    BY <1>1, <1>8, <2>3
  <2>6. line.class - j \in T
    BY <1>1, <2>2, <2>4, <2>5
  <2>7. m <= line.class - j
    BY <2>1, <2>6
  <2> QED BY <1>1, <2>2, <2>4, <2>5, <2>7
<1>10. 1 \in then
  BY <1>1 DEF Start!IsLine
<1>11. g[1] = line.class
  <2>1. 1 \in then /\ line.class - 1 \in Nat
    BY <1>1, <1>10
  <2>2. line.class - 1 \notin T
    BY <1>9
  <2> QED BY <2>1, <2>2
<1> QED BY <1>5, <1>11

\* Steps that open nothing, and construct what may be missing.
Quiet ==
  [does : {"load", "initialize", "call", "find", "new", "allocate", "register"},
   of : {"Class", "Cloneable", "Object", "Field", "NullPointerException", "Serializable", "String",
         "System", "Thread", "ThreadGroup", "Class constructor", "name", "main group",
         "Thread constructor", "thread", "priority", "Unsafe", "StackOverflowError"}]
  \cup [does : {"construct"}, of : {"classes", "system group"}]

\* What is known of two sequences in a row.
LEMMA Joined ==
  ASSUME NEW S, NEW a \in Seq(S), NEW b \in Seq(S)
  PROVE  /\ a \o b \in Seq(S) /\ Len(a) \in Nat /\ Len(b) \in Nat
         /\ Len(a \o b) = Len(a) + Len(b) /\ DOMAIN (a \o b) = 1 .. Len(a) + Len(b)
         /\ \A i \in 1 .. Len(a) : (a \o b)[i] = a[i]
         /\ \A i \in Len(a) + 1 .. Len(a) + Len(b) : (a \o b)[i] = b[i - Len(a)]
OBVIOUS

\* A sequence of one kind is one of more kinds.
LEMMA Wider ==
  ASSUME NEW S, NEW T, S \subseteq T, NEW s \in Seq(S)
  PROVE  s \in Seq(T)
<1>1. \A i \in 1 .. Len(s) : s[i] \in T
  OBVIOUS
<1> QED BY <1>1

\* The class library is opened by the second to seventh step, Class is loaded by the eighth.
LEMMA StepsAre ==
  /\ Len(Start!Steps) \in Nat /\ Len(Start!Steps) >= 8 /\ DOMAIN Start!Steps = 1 .. Len(Start!Steps)
  /\ Start!Steps[8] = Start!Step("load", "Class")
  /\ Start!Steps[1] = Start!Step("library", "java.dll") /\ Start!Steps[2] = Start!Step("open", "rt")
  /\ \A i \in 1 .. Len(Start!Steps) :
       \/ i \in {1, 2}
       \/ i \in 3 .. 7 /\ Start!Steps[i] \in {Start!Step("open", f) : f \in Start!Files \ {"rt"}}
       \/ Start!Steps[i] \in Quiet
<1>1. /\ Start!Opening \in Seq([does : {"open"}, of : Start!Files]) /\ Len(Start!Opening) = 6
      /\ Start!Opening[1] = Start!Step("open", "rt")
      /\ \A i \in 2 .. 6 : Start!Opening[i] \in {Start!Step("open", f) : f \in Start!Files \ {"rt"}}
  BY DEF Start!Opening, Start!All, Start!Step, Start!Files
<1>2. Start!register_classes \in Seq(Quiet) /\ Len(Start!register_classes) = 10
  <2> DEFINE row == <<"Class", "Cloneable", "Object", "Field", "NullPointerException", "Serializable",
                      "String", "System", "Thread", "ThreadGroup">>
  <2>1. /\ Len(row) = 10 /\ DOMAIN row = 1 .. 10
        /\ \A i \in 1 .. 10 : Start!Step("load", row[i]) \in Quiet
    BY DEF Start!Step, Quiet
  <2>2. Start!register_classes = [i \in 1 .. 10 |-> Start!Step("load", row[i])]
    BY <2>1 DEF Start!register_classes, Start!All
  <2> HIDE DEF row
  <2> QED BY <2>1, <2>2
<1>3. Start!register_classes[1] = Start!Step("load", "Class")
  BY DEF Start!register_classes, Start!All
<1>4. Start!initializeSystemClass \in Seq(Quiet)
  BY DEF Start!initializeSystemClass, Start!Step, Quiet
<1>5. Start!create_error_objects \in Seq(Quiet)
  BY DEF Start!create_error_objects, Start!Step, Quiet
<1> DEFINE thread ==
      <<Start!Step("initialize", "Class"), Start!Step("find", "Class constructor"),
        Start!Step("construct", "classes"), Start!Step("construct", "system group"),
        Start!Step("new", "name"), Start!Step("new", "main group"),
        Start!Step("find", "Thread constructor"), Start!Step("initialize", "Thread"),
        Start!Step("allocate", "thread"), Start!Step("find", "priority"),
        Start!Step("call", "Thread constructor"), Start!Step("register", "Unsafe")>>
<1>6. thread \in Seq(Quiet)
  BY DEF Start!Step, Quiet
<1>7. Start!createInitialThread = (Start!register_classes \o thread) \o Start!initializeSystemClass
  BY Zenon DEF Start!createInitialThread
<1> HIDE DEF thread
<1>8. /\ Start!createInitialThread \in Seq(Quiet) /\ Len(Start!createInitialThread) >= 10
      /\ Start!createInitialThread[1] = Start!Step("load", "Class")
  <2>1. PICK a \in Seq(Quiet) : a = Start!register_classes
    BY <1>2
  <2>2. PICK b \in Seq(Quiet) : b = Start!initializeSystemClass
    BY <1>4
  <2>3. a \o thread \in Seq(Quiet) /\ Len(a \o thread) >= 10 /\ (a \o thread)[1] = a[1]
    <3>1. a \o thread \in Seq(Quiet) /\ Len(a \o thread) = Len(a) + Len(thread)
          /\ Len(thread) \in Nat /\ \A i \in 1 .. Len(a) : (a \o thread)[i] = a[i]
      BY <1>6, Joined
    <3>2. Len(a) = 10
      BY <1>2, <2>1
    <3> QED BY <3>1, <3>2
  <2>4. PICK c \in Seq(Quiet) : c = a \o thread
    BY <2>3
  <2>5. c \o b \in Seq(Quiet) /\ Len(c \o b) >= 10 /\ (c \o b)[1] = c[1]
    <3>1. c \o b \in Seq(Quiet) /\ Len(c \o b) = Len(c) + Len(b)
          /\ Len(b) \in Nat /\ Len(c) \in Nat /\ \A i \in 1 .. Len(c) : (c \o b)[i] = c[i]
      BY Joined
    <3>2. Len(c) >= 10
      BY <2>3, <2>4
    <3> QED BY <3>1, <3>2
  <2> QED BY <1>3, <1>7, <2>1, <2>2, <2>3, <2>4, <2>5
<1> DEFINE head == <<Start!Step("library", "java.dll")>>
           opens == [does : {"open"}, of : Start!Files]
           All == Quiet \cup opens \cup {Start!Step("library", "java.dll")}
<1>9. PICK c \in Seq(Quiet) : c = Start!createInitialThread /\ Len(c) >= 10
                              /\ c[1] = Start!Step("load", "Class")
  BY <1>8
<1>10. PICK e \in Seq(Quiet) : e = Start!create_error_objects
  BY <1>5
<1>11. PICK o : o = Start!Opening
  OBVIOUS
<1>12. Start!Steps = ((head \o o) \o c) \o e
  BY <1>9, <1>10, <1>11, Zenon DEF Start!Steps, Start!OpenJDKHandler
<1>13. /\ head \o o \in Seq(All) /\ Len(head \o o) = 7
       /\ (head \o o)[1] = Start!Step("library", "java.dll") /\ (head \o o)[2] = o[1]
       /\ \A i \in 3 .. 7 : (head \o o)[i] = o[i - 1] /\ i - 1 \in 2 .. 6
  <2>1. o \in Seq(All) /\ Len(o) = 6
    <3>1. o \in Seq(opens) /\ Len(o) = 6
      BY <1>1, <1>11
    <3> HIDE DEF opens
    <3>2. opens \subseteq All
      OBVIOUS
    <3> HIDE DEF All
    <3> QED BY <3>1, <3>2, Wider
  <2> HIDE DEF opens
  <2>2. head \in Seq(All) /\ Len(head) = 1 /\ head[1] = Start!Step("library", "java.dll")
    OBVIOUS
  <2> HIDE DEF head, All
  <2>3. /\ head \o o \in Seq(All) /\ Len(head \o o) = 7 /\ (head \o o)[1] = head[1]
        /\ \A i \in 2 .. 7 : (head \o o)[i] = o[i - 1]
    <3>1. /\ head \o o \in Seq(All) /\ Len(head \o o) = Len(head) + Len(o)
          /\ \A i \in 1 .. Len(head) : (head \o o)[i] = head[i]
          /\ \A i \in Len(head) + 1 .. Len(head) + Len(o) : (head \o o)[i] = o[i - Len(head)]
      BY <2>1, <2>2, Joined, Zenon
    <3>2. Len(head) + Len(o) = 7 /\ Len(head) + 1 = 2
      BY <2>1, <2>2
    <3>3. \A i \in 2 .. 7 : i \in Len(head) + 1 .. Len(head) + Len(o) /\ i - Len(head) = i - 1
      BY <2>1, <2>2
    <3>4. \A i \in 2 .. 7 : (head \o o)[i] = o[i - 1]
      BY <3>1, <3>3, Zenon
    <3>5. 1 \in 1 .. Len(head)
      BY <2>2
    <3> QED BY <3>1, <3>2, <3>4, <3>5
  <2>4. \A i \in 3 .. 7 : i \in 2 .. 7
    OBVIOUS
  <2>5. (head \o o)[2] = o[1]
    BY <2>3
  <2> QED BY <2>2, <2>3, <2>4, <2>5
<1>14. PICK p \in Seq(All) : p = head \o o
  BY <1>13
<1>15. c \in Seq(All) /\ e \in Seq(All)
  BY <1>9, <1>10
<1> HIDE DEF head, All
<1>16. PICK q \in Seq(All) : q = p \o c
  BY <1>14, <1>15, Joined
<1>17. /\ Len(q) = 7 + Len(c) /\ Len(c) \in Nat /\ Len(e) \in Nat
       /\ \A i \in 1 .. 7 : q[i] = p[i]
       /\ \A i \in 8 .. Len(q) : q[i] = c[i - 7]
  <2>1. Len(p) = 7
    BY <1>13, <1>14
  <2>2. /\ Len(q) = Len(p) + Len(c) /\ Len(c) \in Nat /\ Len(e) \in Nat
        /\ \A i \in 1 .. Len(p) : q[i] = p[i]
        /\ \A i \in Len(p) + 1 .. Len(p) + Len(c) : q[i] = c[i - Len(p)]
    BY <1>14, <1>15, <1>16, Joined
  <2>3. Len(q) = 7 + Len(c)
    BY <2>1, <2>2
  <2>4. \A i \in 8 .. Len(q) : i \in Len(p) + 1 .. Len(p) + Len(c) /\ i - Len(p) = i - 7
    BY <2>1, <2>2, <2>3
  <2>5. \A i \in 8 .. Len(q) : q[i] = c[i - 7]
    BY <2>2, <2>4, Zenon
  <2> QED BY <2>1, <2>2, <2>3, <2>5
<1>18. \A i \in 8 .. Len(q) : q[i] \in Quiet
  <2> TAKE i \in 8 .. Len(q)
  <2>1. i - 7 \in 1 .. Len(c)
    BY <1>17
  <2>2. c[i - 7] \in Quiet
    BY <1>9, <2>1
  <2> QED BY <1>17, <2>2
<1>19. PICK s \in Seq(All) : s = q \o e
  BY <1>15, Joined
<1>20. /\ Len(s) = Len(q) + Len(e) /\ DOMAIN s = 1 .. Len(s)
       /\ \A i \in 1 .. Len(q) : s[i] = q[i]
       /\ \A i \in Len(q) + 1 .. Len(s) : s[i] = e[i - Len(q)]
  BY <1>15, <1>19, Joined
<1>21. \A i \in Len(q) + 1 .. Len(s) : s[i] \in Quiet
  <2> TAKE i \in Len(q) + 1 .. Len(s)
  <2>1. i - Len(q) \in 1 .. Len(e)
    BY <1>17, <1>20
  <2>2. e[i - Len(q)] \in Quiet
    BY <1>10, <2>1
  <2> QED BY <1>20, <2>2
<1>22. s = Start!Steps
  BY <1>12, <1>14, <1>16, <1>19
<1>23. \A i \in 8 .. Len(s) : s[i] \in Quiet
  <2> TAKE i \in 8 .. Len(s)
  <2>1. i \in 8 .. Len(q) \/ i \in Len(q) + 1 .. Len(s)
    BY <1>17
  <2>2. i \in 8 .. Len(q) => i \in 1 .. Len(q)
    BY <1>17
  <2> QED BY <1>18, <1>20, <1>21, <2>1, <2>2
<1>24. Len(q) >= 17 /\ \A i \in 1 .. 7 : s[i] = p[i]
  BY <1>9, <1>17, <1>20
<1>25. /\ s[1] = Start!Step("library", "java.dll") /\ s[2] = Start!Step("open", "rt")
       /\ \A i \in 3 .. 7 : s[i] \in {Start!Step("open", f) : f \in Start!Files \ {"rt"}}
  <2>1. \A i \in 3 .. 7 : s[i] = o[i - 1] /\ i - 1 \in 2 .. 6
    <3>1. \A i \in 3 .. 7 : p[i] = o[i - 1] /\ i - 1 \in 2 .. 6
      BY <1>13, <1>14, Zenon
    <3>2. \A i \in 3 .. 7 : s[i] = p[i]
      <4>1. \A i \in 3 .. 7 : i \in 1 .. 7
        OBVIOUS
      <4> QED BY <1>24, <4>1, Zenon
    <3> QED BY <3>1, <3>2
  <2>2. s[1] = p[1] /\ s[2] = p[2]
    BY <1>24
  <2>3. s[1] = Start!Step("library", "java.dll") /\ s[2] = Start!Step("open", "rt")
    BY <1>1, <1>11, <1>13, <1>14, <2>2
  <2>4. \A i \in 3 .. 7 : s[i] \in {Start!Step("open", f) : f \in Start!Files \ {"rt"}}
    BY <1>1, <1>11, <2>1
  <2> QED BY <2>3, <2>4
<1>26. s[8] = Start!Step("load", "Class")
  <2>1. 8 \in 8 .. Len(q) /\ 8 \in 1 .. Len(q)
    BY <1>17, <1>24
  <2>2. s[8] = q[8] /\ q[8] = c[8 - 7]
    BY <1>17, <1>20, <2>1
  <2> QED BY <1>9, <2>2
<1>27. Len(s) \in Nat /\ Len(s) >= 8 /\ DOMAIN s = 1 .. Len(s)
  BY <1>17, <1>20, <1>24
<1>28. \A i \in 1 .. Len(s) : i = 1 \/ i = 2 \/ i \in 3 .. 7 \/ i \in 8 .. Len(s)
  BY <1>27
<1> QED BY <1>22, <1>23, <1>25, <1>26, <1>27, <1>28

\* The steps of which nobody looks at the result.
Unwatched == {Start!Step("open", f) : f \in Start!Files} \cup {
  Start!Step("construct", "classes"), Start!Step("construct", "system group"),
  Start!Step("register", "Unsafe"), Start!Step("initialize", "System")}

\* While the start goes on: the class library is open if Class has been loaded,
\* main has the arguments so far, and who does nothing of Deeds gives no options.
StartInv ==
  /\ line \in CommandLines /\ count \in 0 .. Len(Start!Steps) /\ jars \subseteq DOMAIN JarFiles
  /\ argIndex \in 1 .. Len(Start!argv) + 1
  /\ launch \in {"arguments", "initialize", "fill", "main", "destroy", "ended"}
  /\ launch = "arguments" => argIndex = 1 /\ given = <<>> /\ missing = {} /\ jars = {} /\ count = 0
  /\ launch = "initialize" => argIndex = line.class + 1 /\ given = <<>>
  /\ launch = "fill" => /\ line.class + 1 <= argIndex
                        /\ given = SubSeq(Start!argv, line.class + 1, argIndex - 1)
  /\ launch = "main" => given = SubSeq(Start!argv, line.class + 1, Len(Start!argv))
  /\ launch \in {"fill", "main"} => count = Len(Start!Steps)
  /\ launch \in {"initialize", "fill", "main"} =>
       /\ missing \subseteq Unwatched
       /\ Start!Step("open", "rt") \in missing => "rt" \notin jars
       /\ Start!Step("open", "rt") \in missing \/ "rt" \in jars => count >= 2
       /\ count >= 8 => "rt" \in jars
  /\ launch = "destroy" => "destroy" \in launchDeeds
  /\ launchDeeds = {} => agreed /\ (launch \notin {"arguments", "ended"} => Start!Demanded = {})

\* Nothing has been done when the launcher is called.
LEMMA StartBegins == Start!Init => StartInv
<1> SUFFICES ASSUME Start!Init PROVE StartInv
  OBVIOUS
<1>1. line \in CommandLines
  BY DEF Start!Init
<1>2. Len(Start!argv) \in Nat
  BY <1>1, LineIs
<1>3. Len(Start!Steps) \in Nat
  BY StepsAre
<1> QED BY <1>1, <1>2, <1>3 DEF StartInv, Start!Init

\* Of the steps that are ignored, main is run only without some.
LEMMA IgnoredAre ==
  ASSUME NEW i \in 1 .. Len(Start!Steps), Start!Ignored(Start!Steps[i])
  PROVE  Start!Steps[i] \in Unwatched
<1>1. CASE i = 1
  <2>1. Start!Steps[i] = Start!Step("library", "java.dll")
    BY <1>1, StepsAre
  <2> QED BY <2>1 DEF Start!Ignored, Start!Step
<1>2. CASE i = 2
  <2>1. Start!Steps[i] = Start!Step("open", "rt")
    BY <1>2, StepsAre
  <2> QED BY <2>1 DEF Unwatched, Start!Files
<1>3. CASE Start!Steps[i] \in {Start!Step("open", f) : f \in Start!Files \ {"rt"}}
  BY <1>3 DEF Unwatched
<1>4. CASE Start!Steps[i] \in Quiet
  BY <1>4 DEF Start!Ignored, Start!Step, Unwatched, Quiet
<1>5. \/ i = 1 \/ i = 2
      \/ i \in 3 .. 7 /\ Start!Steps[i] \in {Start!Step("open", f) : f \in Start!Files \ {"rt"}}
      \/ Start!Steps[i] \in Quiet
  BY StepsAre
<1> QED BY <1>1, <1>2, <1>3, <1>4, <1>5

\* Only the second step opens rt.
LEMMA OpensRt ==
  ASSUME NEW i \in 1 .. Len(Start!Steps)
  PROVE  /\ Start!Steps[i] = Start!Step("open", "rt") <=> i = 2
         /\ Start!Steps[i].does = "open" => Start!Steps[i].of \in Start!Files
         /\ Start!Steps[i].does = "open" /\ Start!Steps[i].of = "rt" => i = 2
<1>0. Start!Steps[2] = Start!Step("open", "rt")
  BY StepsAre
<1>1. CASE i = 1
  <2>1. Start!Steps[i] = Start!Step("library", "java.dll")
    BY <1>1, StepsAre
  <2> QED BY <1>1, <2>1 DEF Start!Step
<1>2. CASE i = 2
  BY <1>0, <1>2 DEF Start!Step, Start!Files
<1>3. CASE i \in 3 .. 7 /\ Start!Steps[i] \in {Start!Step("open", f) : f \in Start!Files \ {"rt"}}
  BY <1>3 DEF Start!Step
<1>4. CASE Start!Steps[i] \in Quiet
  <2>1. Start!Steps[i].does # "open"
    BY <1>4 DEF Quiet
  <2> QED BY <1>0, <2>1 DEF Start!Step
<1>5. \/ i = 1 \/ i = 2
      \/ i \in 3 .. 7 /\ Start!Steps[i] \in {Start!Step("open", f) : f \in Start!Files \ {"rt"}}
      \/ Start!Steps[i] \in Quiet
  BY StepsAre
<1> QED BY <1>1, <1>2, <1>3, <1>4, <1>5

\* One argument more.
LEMMA OneArgumentMore ==
  ASSUME NEW S, NEW s \in Seq(S), NEW first \in Nat, first >= 1, NEW i \in 1 .. Len(s), first <= i
  PROVE  Append(SubSeq(s, first, i - 1), s[i]) = SubSeq(s, first, i)
OBVIOUS

\* The launcher runs the class of the command line.
LEMMA StartClass ==
  ASSUME line \in CommandLines
  PROVE  Start!startClass = Start!argv[line.class]
BY EndIsClass DEF Start!startClass

\* A line is not changed.
LEMMA LineStays ==
  ASSUME UNCHANGED line
  PROVE  Start!argv' = Start!argv /\ Start!Demanded' = Start!Demanded
BY DEF Start!argv, Start!Demanded

\* Each step of the launcher and of the machine's start keeps it.
LEMMA StartKept == StartInv /\ Start!Next => StartInv'
<1> SUFFICES ASSUME StartInv, Start!Next PROVE StartInv'
  OBVIOUS
<1>0. /\ line \in CommandLines /\ Len(Start!argv) \in Nat /\ line.class \in 1 .. Len(Start!argv) + 1
      /\ Len(Start!Steps) \in Nat /\ Len(Start!Steps) >= 8
      /\ Start!EndOfOptions = line.class /\ agreed
  BY LineIs, StepsAre, EndIsClass DEF StartInv, Start!Next
<1>a. UNCHANGED line => Start!argv' = Start!argv /\ Start!Demanded' = Start!Demanded
  BY LineStays
<1>b. Start!Steps' = Start!Steps
  OBVIOUS
<1>1. CASE Start!Usage
  <2>1. agreed'
    BY <1>0, <1>1 DEF Start!Usage, Start!Outcome
  <2> QED BY <1>0, <1>1, <1>a, <2>1 DEF StartInv, Start!Usage, Start!Go
<1>2. CASE Start!CreateJavaVM
  <2>1. agreed' /\ argIndex' = line.class + 1 /\ line.class <= Len(Start!argv)
    BY <1>0, <1>2 DEF Start!CreateJavaVM, Start!Outcome
  <2> QED BY <1>0, <1>2, <1>a, <2>1 DEF StartInv, Start!CreateJavaVM, Start!Go
<1>3. CASE Start!GetCreatedJavaVMs
  <2>1. UNCHANGED <<line, argIndex, properties, jars, launch, count, missing, given, launchDeeds>>
        /\ agreed' = (launch # "arguments")
        /\ (launch = "arguments" => "early" \in launchDeeds)
    BY <1>3 DEF Start!GetCreatedJavaVMs, Start!Outcome
  <2> QED BY <1>a, <2>1 DEF StartInv
<1>4. CASE Start!Succeed
  <2> DEFINE i == count + 1
  <2>1. i \in 1 .. Len(Start!Steps) /\ count \in Nat
    BY <1>0, <1>4 DEF Start!Succeed, StartInv
  <2>2. /\ UNCHANGED <<line, argIndex, launch, missing, given, launchDeeds>> /\ agreed'
        /\ launch = "initialize" /\ count' = i
        /\ Start!MaySucceed(Start!Steps[i])
        /\ jars' = IF Start!Steps[i].does = "open" THEN jars \cup {Start!Steps[i].of} ELSE jars
    BY <1>4 DEF Start!Succeed, Start!Outcome
  <2>3. jars' \subseteq DOMAIN JarFiles
    <3>1. Start!Files \subseteq DOMAIN JarFiles
      BY AsJavaAssumption DEF Start!IsSetting
    <3> QED BY <2>1, <2>2, <3>1, OpensRt DEF StartInv
  <2>4. "rt" \in jars' => "rt" \in jars \/ i = 2
    BY <2>1, <2>2, OpensRt
  <2>5. i = 8 => "rt" \in jars
    <3>1. i = 8 => Start!Steps[i] = Start!Step("load", "Class")
      BY StepsAre
    <3>2. i = 8 => Start!InLibrary("Class")
      BY <2>2, <3>1 DEF Start!MaySucceed, Start!Step
    <3>3. \A jar \in DOMAIN JarFiles : "Class" \in JarFiles[jar] => jar = "rt"
      BY AsJavaAssumption DEF Start!IsSetting
    <3> QED BY <3>2, <3>3 DEF Start!InLibrary, StartInv
  <2>6. Start!Step("open", "rt") \in missing => count >= 2
    BY <2>2 DEF StartInv
  <2>7. /\ Start!Step("open", "rt") \in missing => "rt" \notin jars'
        /\ Start!Step("open", "rt") \in missing \/ "rt" \in jars' => i >= 2
    BY <2>1, <2>2, <2>4, <2>6 DEF StartInv
  <2>8. jars \subseteq jars'
    BY <2>2
  <2>9. i >= 8 => "rt" \in jars'
    BY <2>1, <2>2, <2>5, <2>8 DEF StartInv
  <2> HIDE DEF i
  <2>10. /\ line' \in CommandLines /\ count' \in 0 .. Len(Start!Steps')
         /\ argIndex' \in 1 .. Len(Start!argv') + 1 /\ launch' = "initialize"
         /\ argIndex' = line'.class + 1 /\ given' = <<>>
         /\ missing' \subseteq Unwatched
         /\ launchDeeds' = {} => agreed' /\ Start!Demanded' = {}
    BY <1>0, <1>a, <1>b, <2>1, <2>2 DEF StartInv
  <2>11. /\ Start!Step("open", "rt") \in missing' => "rt" \notin jars'
         /\ Start!Step("open", "rt") \in missing' \/ "rt" \in jars' => count' >= 2
         /\ count' >= 8 => "rt" \in jars'
    BY <2>2, <2>7, <2>9
  <2> QED BY <2>3, <2>10, <2>11 DEF StartInv, Start!Step, Unwatched, Start!Files
<1>5. CASE Start!FailUnnoticed
  <2> DEFINE i == count + 1
  <2>1. i \in 1 .. Len(Start!Steps) /\ count \in Nat
    BY <1>0, <1>5 DEF Start!FailUnnoticed, StartInv
  <2>2. /\ UNCHANGED <<line, argIndex, jars, launch, given, launchDeeds>> /\ agreed'
        /\ launch = "initialize" /\ count' = i
        /\ missing' = missing \cup {Start!Steps[i]} /\ Start!Ignored(Start!Steps[i])
    BY <1>5 DEF Start!FailUnnoticed, Start!Outcome
  <2>3. missing' \subseteq Unwatched
    BY <2>1, <2>2, IgnoredAre DEF StartInv
  <2>4. Start!Step("open", "rt") \in missing' => Start!Step("open", "rt") \in missing \/ i = 2
    BY <2>1, <2>2, OpensRt
  <2>5. i # 8
    <3>1. i = 8 => Start!Steps[i] = Start!Step("load", "Class")
      BY StepsAre
    <3> QED BY <2>2, <3>1 DEF Start!Ignored, Start!Step
  <2>6. /\ Start!Step("open", "rt") \in missing' => "rt" \notin jars'
        /\ Start!Step("open", "rt") \in missing' \/ "rt" \in jars' => i >= 2
        /\ i >= 8 => "rt" \in jars'
    BY <2>1, <2>2, <2>4, <2>5 DEF StartInv
  <2> HIDE DEF i
  <2>7. /\ line' \in CommandLines /\ count' \in 0 .. Len(Start!Steps') /\ jars' \subseteq DOMAIN JarFiles
        /\ argIndex' \in 1 .. Len(Start!argv') + 1 /\ launch' = "initialize"
        /\ argIndex' = line'.class + 1 /\ given' = <<>>
        /\ launchDeeds' = {} => agreed' /\ Start!Demanded' = {}
    BY <1>0, <1>a, <1>b, <2>1, <2>2 DEF StartInv
  <2>8. /\ Start!Step("open", "rt") \in missing' => "rt" \notin jars'
        /\ Start!Step("open", "rt") \in missing' \/ "rt" \in jars' => count' >= 2
        /\ count' >= 8 => "rt" \in jars'
    BY <2>2, <2>6
  <2> QED BY <2>3, <2>7, <2>8 DEF StartInv, Start!Step, Unwatched, Start!Files
<1>6. CASE Start!FailFatally
  <2>1. agreed'
    BY <1>6 DEF Start!FailFatally, Start!Outcome
  <2> QED BY <1>0, <1>6, <1>a, <1>b, <2>1 DEF StartInv, Start!FailFatally, Start!Go
<1>7. CASE Start!FindMain
  <2>1. launch = "initialize" /\ count = Len(Start!Steps) /\ launch' \in {"fill", "ended"}
        /\ UNCHANGED <<line, argIndex, jars, count, missing, given, launchDeeds>>
    BY <1>7 DEF Start!FindMain, Start!Go
  <2>2. launchDeeds = {} => agreed'
    <3>1. launchDeeds = {} => Start!startClass \notin DOMAIN Directories
      BY <1>7 DEF Start!FindMain
    <3>2. agreed' = (Start!Found(Start!startClass) = Start!JavaFound(Start!startClass))
      BY <1>7 DEF Start!FindMain, Start!Outcome
    <3>3. \A class, paths : class \notin DOMAIN Directories => ~Start!InDirectory(class, paths)
      BY DEF Start!InDirectory
    <3> QED BY <3>1, <3>2, <3>3, Zenon DEF Start!Found, Start!JavaFound
  <2>3. given' = SubSeq(Start!argv, line.class + 1, line.class)
    <3>1. given' = <<>>
      BY <2>1 DEF StartInv
    <3> QED BY <1>0, <3>1
  <2>4. /\ argIndex' - 1 = line.class /\ line.class + 1 <= argIndex'
        /\ argIndex' \in 1 .. Len(Start!argv) + 1
    BY <1>0, <2>1 DEF StartInv
  <2>5. given' = SubSeq(Start!argv', line'.class + 1, argIndex' - 1) /\ line'.class + 1 <= argIndex'
    BY <1>a, <2>1, <2>3, <2>4
  <2> QED BY <1>0, <1>a, <1>b, <2>1, <2>2, <2>4, <2>5 DEF StartInv
<1>8. CASE Start!FillArguments
  <2>1. /\ UNCHANGED <<line, jars, launch, count, missing, launchDeeds>> /\ agreed'
        /\ launch = "fill" /\ argIndex <= Len(Start!argv) /\ argIndex' = argIndex + 1
        /\ given' = Append(given, Start!argv[argIndex])
    BY <1>8 DEF Start!FillArguments, Start!Outcome
  <2>2. /\ argIndex \in 1 .. Len(Start!argv) /\ line.class + 1 <= argIndex
        /\ given = SubSeq(Start!argv, line.class + 1, argIndex - 1)
    BY <1>0, <2>1 DEF StartInv
  <2>3. given' = SubSeq(Start!argv, line.class + 1, argIndex)
    <3>1. Start!argv \in Seq(STRING) /\ line.class + 1 \in Nat /\ line.class + 1 >= 1
      BY <1>0, LineIs
    <3>2. Append(SubSeq(Start!argv, line.class + 1, argIndex - 1), Start!argv[argIndex])
            = SubSeq(Start!argv, line.class + 1, argIndex)
      BY <2>2, <3>1, OneArgumentMore
    <3> QED BY <2>1, <2>2, <3>2
  <2>4. argIndex' - 1 = argIndex /\ argIndex' \in 1 .. Len(Start!argv) + 1 /\ line.class + 1 <= argIndex'
    BY <1>0, <2>1, <2>2
  <2>5. given' = SubSeq(Start!argv', line'.class + 1, argIndex' - 1)
    BY <1>a, <2>1, <2>3, <2>4
  <2> QED BY <1>a, <1>b, <2>1, <2>4, <2>5 DEF StartInv
<1>9. CASE Start!CallMain
  <2>1. /\ UNCHANGED <<line, argIndex, jars, count, missing, given, launchDeeds>>
        /\ launch = "fill" /\ argIndex > Len(Start!argv) /\ launch' = "main"
        /\ Start!Demanded = {} => agreed'
    BY <1>9 DEF Start!CallMain, Start!Outcome, Start!Go
  <2>2. argIndex - 1 = Len(Start!argv)
    BY <1>0, <2>1 DEF StartInv
  <2>3. given' = SubSeq(Start!argv, line.class + 1, Len(Start!argv))
    BY <2>1, <2>2 DEF StartInv
  <2> QED BY <1>0, <1>a, <1>b, <2>1, <2>3 DEF StartInv
<1>10. ASSUME Start!Stays, launchDeeds = {} => agreed' PROVE StartInv'
  BY <1>10, <1>a, <1>b DEF StartInv, Start!Stays
<1>11. ASSUME NEW function \in Start!JNINativeInterface, Start!CallFunction(function)
       PROVE  StartInv'
  <2>1. launchDeeds = {} => agreed'
    <3>1. agreed' = (function \in Start!JNINativeInterface \ Start!Unimplemented)
      BY <1>11, Zenon DEF Start!CallFunction, Start!Outcome, Start!create_jni_env
    <3>2. launchDeeds = {} => function \notin Start!Unimplemented
      BY <1>11 DEF Start!CallFunction
    <3> QED BY <1>11, <3>1, <3>2
  <2> QED BY <1>10, <1>11, <2>1 DEF Start!CallFunction
<1>12. ASSUME NEW version \in Version, Start!IsSupportedJNIVersion(version)
       PROVE  StartInv'
  <2>1. version \in Nat
    BY AsJavaAssumption DEF Start!IsSetting
  <2>2. launchDeeds = {} => agreed'
    <3>1. agreed' = ((version <= 6) = (version \in {2, 4, 6}))
      BY <1>12 DEF Start!IsSupportedJNIVersion, Start!Outcome, Start!JavaVersions, Start!LatestVersion
    <3>2. launchDeeds = {} => version \in {2, 4, 6} \/ version > 6
      BY <1>12 DEF Start!IsSupportedJNIVersion, Start!JavaVersions, Start!LatestVersion
    <3>3. version \in {2, 4, 6} => (version <= 6) = (version \in {2, 4, 6})
      OBVIOUS
    <3>4. version > 6 => (version <= 6) = (version \in {2, 4, 6})
      BY <2>1
    <3> QED BY <3>1, <3>2, <3>3, <3>4
  <2> QED BY <1>10, <1>12, <2>2 DEF Start!IsSupportedJNIVersion
<1>13. ASSUME NEW version \in Version, NEW attached \in BOOLEAN, Start!GetEnv(attached, version)
       PROVE  StartInv'
  <2>1. launchDeeds = {} => agreed'
    BY <1>13 DEF Start!GetEnv, Start!Outcome
  <2> QED BY <1>10, <1>13, <2>1 DEF Start!GetEnv
<1>14. CASE Start!AttachCurrentThread
  BY <1>10, <1>14 DEF Start!AttachCurrentThread
<1>15. CASE Start!DetachCurrentThread
  <2>1. agreed'
    BY <1>15 DEF Start!DetachCurrentThread, Start!Outcome
  <2> QED BY <1>0, <1>15, <1>a, <1>b, <2>1 DEF StartInv, Start!DetachCurrentThread, Start!Go
<1>16. CASE Start!DestroyJavaVM
  <2>1. "destroy" \in launchDeeds
    BY <1>16 DEF Start!DestroyJavaVM, StartInv
  <2> QED BY <1>0, <1>16, <1>a, <1>b, <2>1 DEF StartInv, Start!DestroyJavaVM, Start!Go
<1> QED BY <1>1, <1>2, <1>3, <1>4, <1>5, <1>6, <1>7, <1>8, <1>9, <1>11, <1>12, <1>13, <1>14, <1>15, <1>16
        DEF Start!Next

\* The class of which main is run is the one of the command line, whatever options
\* are before it, and main gets the arguments after it; main runs only if every
\* step of the start has succeeded but those that nobody misses, and then the class
\* library is open; and the machine and its native code see what Java has for them,
\* unless something is done that Launcher lists.
THEOREM StartsHaveJava == Spec => []StartsAsJava
<1>1. Init => (part = "start" => StartInv)
  BY StartBegins DEF Init
<1>2. (part = "start" => StartInv) /\ [Next]_vars => (part = "start" => StartInv)'
  <2> SUFFICES ASSUME part = "start" => StartInv, [Next]_vars, part' = "start"
               PROVE  StartInv'
    OBVIOUS
  <2>1. CASE UNCHANGED vars
    <3>1. UNCHANGED <<line, argIndex, jars, launch, count, missing, given, launchDeeds, agreed>>
      BY <2>1 DEF vars, start
    <3>2. Start!argv' = Start!argv /\ Start!Demanded' = Start!Demanded
      BY <3>1, LineStays
    <3> QED BY <2>1, <3>1, <3>2 DEF StartInv, vars
  <2>2. CASE Next
    <3>1. StartInv /\ Start!Next
      BY <2>2 DEF Next
    <3> QED BY <3>1, StartKept
  <2> QED BY <2>1, <2>2
<1>3. (part = "start" => StartInv) => StartsAsJava
  <2> SUFFICES ASSUME part = "start", StartInv PROVE Start!StartsAsJava
    BY DEF StartsAsJava
  <2>1. line \in CommandLines
    BY DEF StartInv
  <2>2. Start!TypeOK
    BY DEF StartInv, Start!TypeOK
  <2>3. Start!startClass = Start!argv[line.class]
    BY <2>1, StartClass
  <2>4. launch = "main" => missing \subseteq Start!Unnoticed
    <3> SUFFICES ASSUME launch = "main", NEW step \in missing PROVE step \in Start!Unnoticed
      OBVIOUS
    <3>1. "rt" \in jars
      BY StepsAre DEF StartInv
    <3>2. step # Start!Step("open", "rt") /\ step \in Unwatched
      BY <3>1 DEF StartInv
    <3>3. \A f \in Start!Files \ {"rt"} :
            Start!Step("open", f) \in Start!ToSet(Start!Opening) /\ Start!Step("open", f).of # "rt"
      BY DEF Start!ToSet, Start!Opening, Start!All, Start!Files, Start!Step
    <3> QED BY <3>2, <3>3 DEF Unwatched, Start!Unnoticed
  <2> QED BY <2>2, <2>3, <2>4 DEF Start!StartsAsJava, StartInv
<1> QED BY <1>1, <1>2, <1>3, PTL DEF Spec
=============================================================================
