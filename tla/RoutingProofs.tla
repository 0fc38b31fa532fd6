---------------------------- MODULE RoutingProofs ----------------------------
(* Proofs about Routing: main's table of routes against any request.        *)
EXTENDS Routing, WellFoundedInduction, FiniteSetTheorems, SequenceTheorems, TLAPS

-----------------------------------------------------------------------------
(* Sets of numbers in order *)

\* An ascending enumeration of a set of numbers is the set in order.
LEMMA InOrderIs ==
  ASSUME NEW n \in Nat, NEW f \in [1..n -> Nat],
         \A i, j \in 1..n : i < j => f[i] < f[j]
  PROVE  InOrder({f[i] : i \in 1..n}) = f
<1> DEFINE S == {f[i] : i \in 1..n}
           UpTo(k) == {j \in S : j <= f[k]}
<1>1. ASSUME NEW k \in 0..n, NEW T, T = {f[i] : i \in 1..k} PROVE Cardinality(T) = k
  <2> DEFINE g == [i \in 1..k |-> f[i]]
  <2>1. \A i, j \in 1..k : f[i] = f[j] => i = j
    <3> SUFFICES ASSUME NEW i \in 1..k, NEW j \in 1..k, i # j PROVE f[i] # f[j]
      OBVIOUS
    <3>1. i \in 1..n /\ j \in 1..n /\ f[i] \in Nat /\ f[j] \in Nat
      OBVIOUS
    <3>2. CASE i < j
      BY <3>1, <3>2
    <3>3. CASE j < i
      BY <3>1, <3>3
    <3> QED
      BY <3>1, <3>2, <3>3
  <2>2. g \in Bijection(1..k, T)
    BY <1>1, <2>1 DEF Bijection, Injection, Surjection, IsInjective
  <2> QED
    BY <2>2, FS_CountingElements DEF ExistsBijection
<1>2. Cardinality(S) = n
  BY <1>1
<1>3. ASSUME NEW k \in 1..n PROVE UpTo(k) = {f[i] : i \in 1..k} /\ Cardinality(UpTo(k)) = k
  <2>1. ASSUME NEW i \in 1..n PROVE f[i] <= f[k] <=> i <= k
    <3>1. CASE i < k
      BY <3>1
    <3>2. CASE i = k
      BY <3>2
    <3>3. CASE k < i
      BY <3>3
    <3> QED
      BY <3>1, <3>2, <3>3
  <2>2. UpTo(k) = {f[i] : i \in 1..k}
    BY <2>1
  <2> QED
    BY <2>2, <1>1
<1>4. ASSUME NEW k \in 1..n
      PROVE  f[k] = CHOOSE i \in S : Cardinality({j \in S : j <= i}) = k
  <2>1. \A i \in S : Cardinality({j \in S : j <= i}) = k <=> i = f[k]
    <3> SUFFICES ASSUME NEW m \in 1..n PROVE Cardinality(UpTo(m)) = k <=> f[m] = f[k]
      OBVIOUS
    <3>1. Cardinality(UpTo(m)) = m
      BY <1>3
    <3>2. f[m] = f[k] => m = k
      <4>1. CASE m < k
        BY <4>1
      <4>2. CASE k < m
        BY <4>2
      <4> QED
        BY <4>1, <4>2
    <3> QED
      BY <3>1, <3>2
  <2>2. f[k] \in S
    OBVIOUS
  <2> HIDE DEF S
  <2> QED
    BY <2>1, <2>2
<1> HIDE DEF S
<1>5. InOrder(S) = [k \in 1..n |-> f[k]]
  BY <1>2, <1>4 DEF InOrder
<1> QED
  BY <1>5 DEF S

\* The first numbers are in order.
LEMMA FirstInOrder ==
  ASSUME NEW n \in Nat
  PROVE  InOrder(1..n) = [k \in 1..n |-> k]
<1> DEFINE f == [k \in 1..n |-> k]
<1>1. f \in [1..n -> Nat] /\ (\A i, j \in 1..n : i < j => f[i] < f[j])
  OBVIOUS
<1>2. 1..n = {f[i] : i \in 1..n}
  OBVIOUS
<1> HIDE DEF f
<1>3. InOrder({f[i] : i \in 1..n}) = f
  BY <1>1, InOrderIs
<1> QED
  BY <1>2, <1>3 DEF f

LEMMA NoneInOrder == InOrder({}) = <<>>
BY FS_EmptySet DEF InOrder

-----------------------------------------------------------------------------
(* The table of main *)

ModuleOf(word) == IF word = "" THEN <<"/">> ELSE <<"/", word>>

\* What FileRoutes lists, as a set.
FileSet(module, path, handler) ==
  {Route("HEAD", module, path, <<>>, "HEAD_ServeFile"),
   Route("OPTIONS", module, path, <<>>, "OPTIONS_ServeFile"),
   Route("GET", module, path, <<>>, handler)}

\* The routes of main by the first word of their URLs.
FormSet ==
  FileSet(<<>>, <<>>, "GET_ServeFile")
  \cup FileSet(<<"js">>, <<Literal("simple_form.js")>>, "GET_ServeFile")
  \cup FileSet(<<"styles">>, <<Literal("simple_form.css")>>, "GET_ServeFile")

IconSet == FileSet(<<"favicon.ico">>, <<>>, "GET_ServeBinaryFile")

AuthSet ==
  {Route("GET", <<"version">>, <<>>, <<>>, "GET_version"),
   Route("GET", <<"nonce">>, <<Required("string")>>, <<>>, "GET_nonce"),
   Route("OPTIONS", <<"auth">>, <<>>, <<>>, "OPTIONS_auth"),
   Route("POST", <<"auth">>, <<>>, <<>>, "POST_auth"),
   Route("OPTIONS", <<"refresh">>, <<>>, <<>>, "OPTIONS_refresh"),
   Route("POST", <<"refresh">>, <<>>, <<>>, "POST_refresh")}

RecordSet ==
  {Route("OPTIONS", <<"account">>, <<Required("string")>>, Paged, "OPTIONS_accountInfo"),
   Route("GET", <<"account">>, <<Required("string")>>, Paged, "GET_accountInfo"),
   Route("OPTIONS", <<"feature">>, Versioned, <<>>, "OPTIONS_feature"),
   Route("GET", <<"feature">>, Versioned, <<>>, "GET_feature"),
   Route("POST", <<"feature">>, <<>>, <<>>, "POST_feature"),
   Route("OPTIONS", <<"transformation">>, Versioned, <<>>, "OPTIONS_transformation"),
   Route("GET", <<"transformation">>, Versioned, <<>>, "GET_transformation"),
   Route("POST", <<"transformation">>, <<>>, <<>>, "POST_transformation"),
   Route("OPTIONS", <<"execute">>, Run, <<>>, "OPTIONS_execute"),
   Route("GET", <<"execute">>, Run, <<>>, "GET_execute")}

RouteSet == FormSet \cup IconSet \cup AuthSet \cup RecordSet

LEMMA ServiceInSet == ServiceRoutes \in Seq(AuthSet \cup RecordSet)
BY DEF ServiceRoutes, AuthSet, RecordSet

LEMMA FilesInSet ==
  ASSUME NEW module, NEW path, NEW handler
  PROVE  FileRoutes(module, path, handler) \in Seq(FileSet(module, path, handler))
BY DEF FileRoutes, FileSet

\* Every route of the table is one of these, whichever files could be read.
LEMMA TableInSet == Table \in Seq(RouteSet) /\ ToSet(Table) \subseteq RouteSet
<1>1. FormRoutes \in Seq(RouteSet)
  <2>1. ASSUME NEW module, NEW path, NEW handler,
               FileSet(module, path, handler) \subseteq RouteSet
        PROVE  FileRoutes(module, path, handler) \in Seq(RouteSet)
    BY <2>1, FilesInSet, SeqMonotonic
  <2>2. FileRoutes(<<>>, <<>>, "GET_ServeFile") \in Seq(RouteSet)
    BY <2>1 DEF RouteSet, FormSet
  <2>3. FileRoutes(<<"js">>, <<Literal("simple_form.js")>>, "GET_ServeFile") \in Seq(RouteSet)
    BY <2>1 DEF RouteSet, FormSet
  <2>4. FileRoutes(<<"styles">>, <<Literal("simple_form.css")>>, "GET_ServeFile")
          \in Seq(RouteSet)
    BY <2>1 DEF RouteSet, FormSet
  <2> QED
    BY <2>2, <2>3, <2>4, ConcatProperties DEF FormRoutes
<1>2. IconRoutes \in Seq(RouteSet)
  BY FilesInSet, SeqMonotonic DEF IconRoutes, RouteSet, IconSet
<1>3. ServiceRoutes \in Seq(RouteSet)
  BY ServiceInSet, SeqMonotonic DEF RouteSet
<1>4. Table \in Seq(RouteSet)
  BY <1>1, <1>2, <1>3, ConcatProperties, EmptySeq DEF Table
<1> QED
  BY <1>4, LenProperties DEF ToSet

LEMMA PairOfOnes ==
  ASSUME NEW v, NEW w
  PROVE  <<v>> \o <<w>> = <<v, w>>
<1>1. <<v>> \in Seq({v, w}) /\ <<w>> \in Seq({v, w}) /\ <<v, w>> \in Seq({v, w})
  OBVIOUS
<1>2. Len(<<v>>) = 1 /\ Len(<<w>>) = 1 /\ Len(<<v, w>>) = 2
  OBVIOUS
<1>3. /\ <<v>> \o <<w>> \in Seq({v, w}) /\ Len(<<v>> \o <<w>>) = 2
      /\ (<<v>> \o <<w>>)[1] = v /\ (<<v>> \o <<w>>)[2] = w
  BY <1>1, <1>2, ConcatProperties
<1>4. \A i \in 1..Len(<<v, w>>) : (<<v>> \o <<w>>)[i] = <<v, w>>[i]
  BY <1>2, <1>3
<1>5. Len(<<v>> \o <<w>>) = Len(<<v, w>>)
  BY <1>2, <1>3
<1> QED
  BY <1>1, <1>3, <1>4, <1>5, SeqEqual

LEMMA ModuleForms ==
  /\ <<"/">> \o <<>> = ModuleOf("")
  /\ \A word : word # "" => <<"/">> \o <<word>> = ModuleOf(word)
<1>1. <<"/">> \in Seq({"/"})
  OBVIOUS
<1>2. <<"/">> \o <<>> = <<"/">>
  BY <1>1, ConcatEmptySeq
<1> QED
  BY <1>2, PairOfOnes DEF ModuleOf

\* A route of main with its fields.
Listed(r, method, word, path, query, handler) ==
  r = [method |-> method, module |-> ModuleOf(word), path |-> path, query |-> query,
       handler |-> handler]

LEMMA RouteFields ==
  /\ \A method, path, query, handler :
       Listed(Route(method, <<>>, path, query, handler), method, "", path, query, handler)
  /\ \A method, word, path, query, handler :
       word # "" =>
         Listed(Route(method, <<word>>, path, query, handler), method, word, path, query, handler)
BY ModuleForms DEF Listed, Route

\* The pattern of a single argument.
Single == <<Required("string")>>

\* The routes by the first word of their URLs.
FileEntry(r, word, path, handler) ==
  \/ Listed(r, "HEAD", word, path, <<>>, "HEAD_ServeFile")
  \/ Listed(r, "OPTIONS", word, path, <<>>, "OPTIONS_ServeFile")
  \/ Listed(r, "GET", word, path, <<>>, handler)

EntryAt(r, word) ==
  \/ word = "" /\ FileEntry(r, "", <<>>, "GET_ServeFile")
  \/ word = "js" /\ FileEntry(r, "js", <<Literal("simple_form.js")>>, "GET_ServeFile")
  \/ word = "styles" /\ FileEntry(r, "styles", <<Literal("simple_form.css")>>, "GET_ServeFile")
  \/ word = "favicon.ico" /\ FileEntry(r, "favicon.ico", <<>>, "GET_ServeBinaryFile")
  \/ word = "version" /\ Listed(r, "GET", "version", <<>>, <<>>, "GET_version")
  \/ word = "nonce" /\ Listed(r, "GET", "nonce", Single, <<>>, "GET_nonce")
  \/ /\ word = "auth"
     /\ \/ Listed(r, "OPTIONS", "auth", <<>>, <<>>, "OPTIONS_auth")
        \/ Listed(r, "POST", "auth", <<>>, <<>>, "POST_auth")
  \/ /\ word = "refresh"
     /\ \/ Listed(r, "OPTIONS", "refresh", <<>>, <<>>, "OPTIONS_refresh")
        \/ Listed(r, "POST", "refresh", <<>>, <<>>, "POST_refresh")
  \/ /\ word = "account"
     /\ \/ Listed(r, "OPTIONS", "account", Single, Paged, "OPTIONS_accountInfo")
        \/ Listed(r, "GET", "account", Single, Paged, "GET_accountInfo")
  \/ /\ word = "feature"
     /\ \/ Listed(r, "OPTIONS", "feature", Versioned, <<>>, "OPTIONS_feature")
        \/ Listed(r, "GET", "feature", Versioned, <<>>, "GET_feature")
        \/ Listed(r, "POST", "feature", <<>>, <<>>, "POST_feature")
  \/ /\ word = "transformation"
     /\ \/ Listed(r, "OPTIONS", "transformation", Versioned, <<>>, "OPTIONS_transformation")
        \/ Listed(r, "GET", "transformation", Versioned, <<>>, "GET_transformation")
        \/ Listed(r, "POST", "transformation", <<>>, <<>>, "POST_transformation")
  \/ /\ word = "execute"
     /\ \/ Listed(r, "OPTIONS", "execute", Run, <<>>, "OPTIONS_execute")
        \/ Listed(r, "GET", "execute", Run, <<>>, "GET_execute")

LEMMA RouteIsEntry ==
  ASSUME NEW r \in RouteSet
  PROVE  \E word : EntryAt(r, word)
<1>1. CASE r \in FormSet
  BY <1>1, RouteFields DEF FormSet, FileSet, EntryAt, FileEntry
<1>2. CASE r \in IconSet
  BY <1>2, RouteFields DEF IconSet, FileSet, EntryAt, FileEntry
<1>3. CASE r \in AuthSet
  BY <1>3, RouteFields DEF AuthSet, EntryAt, Single
<1>4. CASE r \in RecordSet
  BY <1>4, RouteFields DEF RecordSet, EntryAt, Single
<1> QED
  BY <1>1, <1>2, <1>3, <1>4 DEF RouteSet

LEMMA ListedFields ==
  ASSUME NEW r, NEW method, NEW word, NEW path, NEW query, NEW handler,
         Listed(r, method, word, path, query, handler)
  PROVE  /\ r.method = method /\ r.module = ModuleOf(word) /\ r.path = path
         /\ r.query = query /\ r.handler = handler
BY DEF Listed

LEMMA EntryModule ==
  ASSUME NEW r, NEW word, EntryAt(r, word)
  PROVE  r.module = ModuleOf(word) /\ word # "/"
<1>1. word # "/"
  BY DEF EntryAt
<1>2. r.module = ModuleOf(word)
  BY ListedFields DEF EntryAt, FileEntry
<1> QED
  BY <1>1, <1>2

LEMMA ModulesDiffer ==
  ASSUME NEW v, NEW w, ModuleOf(v) = ModuleOf(w)
  PROVE  v = w
BY DEF ModuleOf

LEMMA FileEntriesDiffer ==
  ASSUME NEW r, NEW s, NEW word, NEW path, NEW handler,
         FileEntry(r, word, path, handler), FileEntry(s, word, path, handler),
         r.method = s.method
  PROVE  r = s
BY ListedFields DEF FileEntry, Listed

\* The method and the first word tell any two routes of main apart.
LEMMA RoutesDiffer ==
  ASSUME NEW r \in RouteSet, NEW s \in RouteSet, r.method = s.method, r.module = s.module
  PROVE  r = s
<1>1. PICK word : EntryAt(r, word) /\ EntryAt(s, word)
  BY RouteIsEntry, EntryModule, ModulesDiffer
<1>2. CASE word \in {"", "js", "styles", "favicon.ico"}
  BY <1>1, <1>2, FileEntriesDiffer DEF EntryAt
<1>3. CASE word = "version"
  BY <1>1, <1>3 DEF EntryAt, Listed
<1>10. CASE word = "nonce"
  BY <1>1, <1>10 DEF EntryAt, Listed
<1>8. CASE word = "auth"
  BY <1>1, <1>8, ListedFields DEF EntryAt, Listed
<1>9. CASE word = "refresh"
  BY <1>1, <1>9, ListedFields DEF EntryAt, Listed
<1>4. CASE word = "account"
  BY <1>1, <1>4, ListedFields DEF EntryAt, Listed
<1>5. CASE word = "feature"
  BY <1>1, <1>5, ListedFields DEF EntryAt, Listed
<1>6. CASE word = "transformation"
  BY <1>1, <1>6, ListedFields DEF EntryAt, Listed
<1>7. CASE word = "execute"
  BY <1>1, <1>7, ListedFields DEF EntryAt, Listed
<1> QED
  BY <1>1, <1>2, <1>3, <1>4, <1>5, <1>6, <1>7, <1>8, <1>9, <1>10 DEF EntryAt

\* What routes ask of the path, and of the query, by their handlers.
RoutePaths ==
  {<<>>, <<Literal("simple_form.js")>>, <<Literal("simple_form.css")>>,
   Single, Versioned, Run}

Asks(word, path, query, handler) ==
  /\ handler \notin {"none", "any"}
  /\ path \in RoutePaths /\ query \in {<<>>, Paged}
  /\ word = "" => path = <<>>
  /\ query = Paged => path = Single
  /\ handler = "POST_auth" => path = <<>>
  /\ handler \in {"GET_nonce", "GET_accountInfo"} => path = Single
  /\ handler = "GET_accountInfo" => query = Paged
  /\ handler \in {"GET_feature", "GET_transformation"} => path = Versioned
  /\ handler = "GET_execute" => path = Run

LEMMA RouteShape ==
  ASSUME NEW r \in RouteSet
  PROVE  /\ r.method # "none"
         /\ \E word : /\ r.module = ModuleOf(word) /\ word # "/"
                      /\ Asks(word, r.path, r.query, r.handler)
<1>1. PICK word : EntryAt(r, word)
  BY RouteIsEntry
<1> SUFFICES r.method # "none" /\ Asks(word, r.path, r.query, r.handler)
  BY <1>1, EntryModule
<1>2. <<>> # Paged
  BY DEF Paged
<1>4. CASE word = ""
  <2>1. FileEntry(r, "", <<>>, "GET_ServeFile")
    BY <1>1, <1>4 DEF EntryAt
  <2>2. /\ r.method \in {"HEAD", "OPTIONS", "GET"} /\ r.path = <<>> /\ r.query = <<>>
        /\ r.handler \in {"HEAD_ServeFile", "OPTIONS_ServeFile", "GET_ServeFile"}
    BY <2>1, ListedFields DEF FileEntry
  <2> QED
    BY <1>2, <2>2 DEF Asks, RoutePaths
<1>5. CASE word = "js"
  BY <1>1, <1>2, <1>5, ListedFields
  DEF EntryAt, FileEntry, Asks, RoutePaths
<1>6. CASE word = "styles"
  BY <1>1, <1>2, <1>6, ListedFields
  DEF EntryAt, FileEntry, Asks, RoutePaths
<1>7. CASE word = "favicon.ico"
  BY <1>1, <1>2, <1>7, ListedFields
  DEF EntryAt, FileEntry, Asks, RoutePaths
<1>8. CASE word = "version"
  BY <1>1, <1>2, <1>8, ListedFields
  DEF EntryAt, Asks, RoutePaths
<1>9. CASE word = "nonce"
  BY <1>1, <1>2, <1>9, ListedFields
  DEF EntryAt, Asks, RoutePaths
<1>10. CASE word = "auth"
  BY <1>1, <1>2, <1>10, ListedFields
  DEF EntryAt, Asks, RoutePaths
<1>11. CASE word = "refresh"
  BY <1>1, <1>2, <1>11, ListedFields
  DEF EntryAt, Asks, RoutePaths
<1>12. CASE word = "account"
  BY <1>1, <1>2, <1>12, ListedFields
  DEF EntryAt, Asks, RoutePaths
<1>13. CASE word = "feature"
  BY <1>1, <1>2, <1>13, ListedFields
  DEF EntryAt, Asks, RoutePaths
<1>14. CASE word = "transformation"
  BY <1>1, <1>2, <1>14, ListedFields
  DEF EntryAt, Asks, RoutePaths
<1>15. CASE word = "execute"
  BY <1>1, <1>2, <1>15, ListedFields
  DEF EntryAt, Asks, RoutePaths
<1> QED
  BY <1>1, <1>4, <1>5, <1>6, <1>7, <1>8, <1>9, <1>10, <1>11, <1>12, <1>13, <1>14, <1>15 DEF EntryAt

-----------------------------------------------------------------------------
(* Matching and arguments *)

LEMMA LenOfFunction ==
  ASSUME NEW n \in Nat, NEW f, f = [k \in 1..n |-> f[k]]
  PROVE  Len(f) = n /\ DOMAIN f = 1..n
BY LenProperties

\* The segments of a path are a sequence.
LEMMA SegmentsSequence ==
  ASSUME NEW S, NEW info \in Seq(S)
  PROVE  \E n \in Nat : /\ DOMAIN splitPathSegments(info) = 1..n
                        /\ Len(splitPathSegments(info)) = n
<1> DEFINE starts == Slashes(info) \ {Len(info)}
<1>1. starts \subseteq 1..Len(info) /\ Len(info) \in Nat
  BY DEF Slashes
<1>2. Cardinality(starts) \in Nat
  <2>1. IsFiniteSet(1..Len(info))
    BY <1>1, FS_Interval
  <2> QED
    BY <1>1, <2>1, FS_Subset, FS_CardinalityType
<1>3. DOMAIN InOrder(starts) = 1..Cardinality(starts)
  BY DEF InOrder
<1>4. DOMAIN splitPathSegments(info) = 1..Cardinality(starts)
  BY <1>3 DEF splitPathSegments
<1>5. Len(splitPathSegments(info)) = Cardinality(starts)
  BY <1>2, <1>3 DEF splitPathSegments
<1> QED
  BY <1>2, <1>4, <1>5

\* The three patterns of arguments: their lengths, and what may be missing.
LEMMA PatternSizes ==
  /\ Len(Single) = 1 /\ DOMAIN Single = 1..1
  /\ Len(Versioned) = 2 /\ DOMAIN Versioned = 1..2
  /\ Len(Run) = 3 /\ DOMAIN Run = 1..3
  /\ ~IsOptional(Single[1]) /\ ~IsOptional(Versioned[1]) /\ ~IsOptional(Run[2])
<1>1. ~IsOptional(Required("string")) /\ ~IsOptional(Required("uint"))
  BY DEF Required, IsOptional
<1> QED
  BY <1>1 DEF Versioned, Run, Single

LEMMA PatternLengths == Len(Single) = 1 /\ Len(Versioned) = 2 /\ Len(Run) = 3
BY PatternSizes

LEMMA LengthsDiffer ==
  ASSUME NEW path
  PROVE  /\ Len(path) = 1 => path # Versioned /\ path # Run /\ path # <<>>
         /\ Len(path) = 2 => path # Single /\ path # Run /\ path # <<>>
         /\ Len(path) = 3 => path # Single /\ path # Versioned /\ path # <<>>
<1>1. Len(path) \in {1, 2, 3} => path # <<>>
  OBVIOUS
<1>2. Len(path) # 1 => path # Single
  BY PatternLengths
<1>3. Len(path) # 2 => path # Versioned
  BY PatternLengths
<1>4. Len(path) # 3 => path # Run
  BY PatternLengths
<1> QED
  BY <1>1, <1>2, <1>3, <1>4

LEMMA PatternKinds ==
  ASSUME NEW path \in {Single, Versioned, Run}, NEW i \in DOMAIN path
  PROVE  path[i].kind = "argument" /\ path[i].type \in {"string", "uint", "array"}
<1>1. ASSUME NEW type, NEW segment \in {Required(type), Optional(type)}
      PROVE  segment.kind = "argument" /\ segment.type = type
  BY DEF Required, Optional
<1>2. path[i] \in {Required("string"), Required("uint"), Optional("string"), Optional("array")}
  BY DEF Versioned, Run, Single
<1> QED
  BY <1>1, <1>2

\* Which segments of a match are arguments: all of them, or none.
LEMMA MatchedArguments ==
  ASSUME NEW path \in RoutePaths, NEW segments, NEW n \in Nat,
         DOMAIN segments = 1..n, Len(segments) = n, PathMatches(path, segments)
  PROVE  /\ path = <<>> => n = 0
         /\ path = Single => n = 1
         /\ path = Versioned => n \in 1..2
         /\ path = Run => n \in 2..3
         /\ \/ /\ Arguments(path, segments) = [k \in 1..n |-> k]
               /\ \A k \in 1..n : path[k].kind = "argument" /\
                                  path[k].type \in {"string", "uint", "array"}
            \/ Arguments(path, segments) = <<>> /\ path \notin {Single, Versioned, Run}
<1>4. ASSUME path \in {Single, Versioned, Run}, 1..n \subseteq DOMAIN path
      PROVE  /\ Arguments(path, segments) = [k \in 1..n |-> k]
             /\ \A k \in 1..n : path[k].kind = "argument" /\
                                path[k].type \in {"string", "uint", "array"}
  <2>1. \A i \in 1..n : path[i].kind = "argument" /\
                        path[i].type \in {"string", "uint", "array"}
    BY <1>4, PatternKinds
  <2>2. {i \in DOMAIN segments : path[i].kind = "argument"} = 1..n
    BY <2>1
  <2> QED
    BY <2>1, <2>2, FirstInOrder DEF Arguments
<1>1. CASE path = <<>>
  <2>1. n = 0
    BY <1>1 DEF PathMatches
  <2>2. {i \in DOMAIN segments : path[i].kind = "argument"} = 1..n
    BY <2>1
  <2>3. path \notin {Single, Versioned, Run}
    BY <1>1 DEF Versioned, Run, Single
  <2>4. Arguments(path, segments) = <<>>
    BY <2>1, <2>2, NoneInOrder DEF Arguments
  <2> QED
    BY <1>1, <2>1, <2>3, <2>4
<1>2. CASE \E word : path = <<Literal(word)>>
  <2>1. PICK word : path = <<Literal(word)>>
    BY <1>2
  <2>2. path[1].kind = "literal" /\ Len(path) = 1
    BY <2>1 DEF Literal
  <2>3. n <= 1
    BY <2>2 DEF PathMatches
  <2>4. {i \in DOMAIN segments : path[i].kind = "argument"} = {}
    BY <2>2, <2>3
  <2>5. path \notin {<<>>, Single, Versioned, Run}
    BY <2>1, <2>2 DEF Versioned, Run, Single, Required
  <2> QED
    BY <2>4, <2>5, NoneInOrder DEF Arguments
<1>3. CASE path \in {Single, Versioned, Run}
  <2>1. CASE path = Single
    <3>1. Len(path) = 1 /\ DOMAIN path = 1..1 /\ ~IsOptional(path[1])
      BY <2>1, PatternSizes
    <3>2. n \in 1..1
      BY <3>1 DEF PathMatches
    <3>3. path # Versioned /\ path # Run /\ path # <<>>
      BY <3>1, LengthsDiffer, Zenon
    <3>4. 1..n \subseteq DOMAIN path
      BY <3>1, <3>2
    <3> QED
      BY <1>3, <3>2, <3>3, <3>4, <1>4
  <2>2. CASE path = Versioned
    <3>1. Len(path) = 2 /\ DOMAIN path = 1..2 /\ ~IsOptional(path[1])
      BY <2>2, PatternSizes
    <3>2. n \in 1..2
      BY <3>1 DEF PathMatches
    <3>3. path # Single /\ path # Run /\ path # <<>>
      BY <3>1, LengthsDiffer, Zenon
    <3>4. 1..n \subseteq DOMAIN path
      BY <3>1, <3>2
    <3> QED
      BY <1>3, <3>2, <3>3, <3>4, <1>4
  <2>3. CASE path = Run
    <3>1. Len(path) = 3 /\ DOMAIN path = 1..3 /\ ~IsOptional(path[2])
      BY <2>3, PatternSizes
    <3>2. n \in 2..3
      BY <3>1 DEF PathMatches
    <3>3. path # Single /\ path # Versioned /\ path # <<>>
      BY <3>1, LengthsDiffer, Zenon
    <3>4. 1..n \subseteq DOMAIN path
      BY <3>1, <3>2
    <3> QED
      BY <1>3, <3>2, <3>3, <3>4, <1>4
  <2> QED
    BY <1>3, <2>1, <2>2, <2>3
<1> QED
  BY <1>1, <1>2, <1>3 DEF RoutePaths

LEMMA LeastMember ==
  ASSUME NEW S \in SUBSET Nat, S # {}
  PROVE  Min(S) \in S /\ \A i \in S : Min(S) <= i
<1>1. PICK least \in S : \A i \in S : ~ (<<i, least>> \in OpToRel(<, Nat))
  BY NatLessThanWellFounded, WFMin
<1>2. ASSUME NEW i \in S PROVE least <= i
  <2>1. i \in Nat /\ least \in Nat
    OBVIOUS
  <2>2. CASE i < least
    <3> DEFINE pair == <<i, least>>
    <3>1. pair \in Nat \X Nat /\ pair[1] < pair[2]
      BY <2>1, <2>2
    <3> HIDE DEF pair
    <3>2. pair \in OpToRel(<, Nat)
      BY <3>1 DEF OpToRel
    <3> QED
      BY <1>1, <3>2 DEF pair
  <2> QED
    BY <2>1, <2>2
<1> QED
  BY <1>2 DEF Min

\* What follows the module of a URL is a sequence too.
LEMMA InfoSequence ==
  ASSUME NEW S, NEW req, req.path \in Seq(S)
  PROVE  getPathInfo(req) \in Seq(S)
<1> DEFINE slashes == Slashes(req.path)
           others == slashes \ {Min(slashes)}
<1>1. CASE slashes = {} \/ others = {}
  BY <1>1, EmptySeq DEF getPathInfo
<1>2. CASE slashes # {} /\ others # {}
  <2>1. slashes \subseteq 1..Len(req.path) /\ Len(req.path) \in Nat
    BY LenProperties DEF Slashes
  <2>2. Min(others) \in 1..Len(req.path)
    <3>1. others \in SUBSET Nat /\ others \subseteq 1..Len(req.path)
      BY <2>1
    <3> HIDE DEF others
    <3> QED
      BY <1>2, <3>1, LeastMember
  <2>3. \A i \in Min(others)..Len(req.path) : req.path[i] \in S
    BY <2>1, <2>2, ElementOfSeq
  <2>4. getPathInfo(req) = SubSeq(req.path, Min(others), Len(req.path))
    BY <1>2 DEF getPathInfo
  <2> HIDE DEF others
  <2>5. SubSeq(req.path, Min(others), Len(req.path)) \in Seq(S)
    BY <2>1, <2>2, <2>3, SubSeqProperties
  <2> QED
    BY <2>4, <2>5
<1> QED
  BY <1>1, <1>2

\* The arguments of a route of main that matches: all the segments, or none of them.
LEMMA CallArguments ==
  ASSUME NEW S, NEW r \in RouteSet, NEW req, req.path \in Seq(S), doesRouteMatch(r, req)
  PROVE  \E m \in Nat :
           /\ DOMAIN Call(r, req).args = 1..m /\ Len(Call(r, req).args) = m
           /\ r.path = <<>> => m = 0
           /\ r.path = Single => m = 1
           /\ r.path = Versioned => m \in 1..2
           /\ r.path = Run => m \in 2..3
           /\ r.path \in {Single, Versioned, Run} =>
                m = Len(splitPathSegments(getPathInfo(req)))
           /\ \A k \in 1..m :
                /\ Call(r, req).args[k].type \in {"string", "uint", "array"}
                /\ Call(r, req).args[k].type = r.path[k].type
                /\ Call(r, req).args[k].text = splitPathSegments(getPathInfo(req))[k]
<1> DEFINE segments == splitPathSegments(getPathInfo(req))
<1>1. PICK n \in Nat : DOMAIN segments = 1..n /\ Len(segments) = n
  BY InfoSequence, SegmentsSequence
<1>2. PathMatches(r.path, segments)
  BY DEF doesRouteMatch
<1>3. r.path \in RoutePaths
  BY RouteShape DEF Asks
<1>4. Call(r, req).args = PathArgs(r.path, segments)
  BY DEF Call
<1> HIDE DEF segments
<1>5. /\ r.path = <<>> => n = 0
      /\ r.path = Single => n = 1
      /\ r.path = Versioned => n \in 1..2
      /\ r.path = Run => n \in 2..3
  BY <1>1, <1>2, <1>3, MatchedArguments
<1>6. CASE /\ Arguments(r.path, segments) = [k \in 1..n |-> k]
           /\ \A k \in 1..n : r.path[k].kind = "argument" /\
                              r.path[k].type \in {"string", "uint", "array"}
  <2> DEFINE args == PathArgs(r.path, segments)
  <2>1. args = [k \in 1..n |-> [type |-> r.path[k].type, text |-> segments[k]]]
    BY <1>6 DEF PathArgs
  <2>2. DOMAIN args = 1..n /\ Len(args) = n
    BY <2>1
  <2>3. \A k \in 1..n : /\ args[k].type = r.path[k].type /\ args[k].text = segments[k]
                        /\ args[k].type \in {"string", "uint", "array"}
    BY <1>6, <2>1
  <2> HIDE DEF args
  <2> QED
    BY <1>1, <1>4, <1>5, <2>2, <2>3 DEF args, segments
<1>7. CASE Arguments(r.path, segments) = <<>> /\ r.path \notin {Single, Versioned, Run}
  <2> DEFINE args == PathArgs(r.path, segments)
  <2>1. args = <<>>
    BY <1>7 DEF PathArgs
  <2>2. DOMAIN args = 1..0 /\ Len(args) = 0
    BY <2>1
  <2> HIDE DEF args
  <2> QED
    BY <1>4, <1>7, <2>2 DEF args, segments
<1> QED
  BY <1>1, <1>2, <1>3, <1>6, <1>7, MatchedArguments

\* Whatever reached a handler of main has the arguments it wants.
LEMMA CallFits ==
  ASSUME NEW S, NEW r \in RouteSet, NEW req, req.path \in Seq(S), doesRouteMatch(r, req)
  PROVE  /\ Arity(Call(r, req))
         /\ \A i \in DOMAIN Call(r, req).args :
              Call(r, req).args[i].type \in {"string", "uint", "array"}
<1> DEFINE call == Call(r, req)
<1>1. PICK word : Asks(word, r.path, r.query, r.handler)
  BY RouteShape
<1>2. PICK m \in Nat : /\ DOMAIN call.args = 1..m /\ Len(call.args) = m
                       /\ r.path = <<>> => m = 0
                       /\ r.path = Single => m = 1
                       /\ r.path = Versioned => m \in 1..2
                       /\ r.path = Run => m \in 2..3
                       /\ \A k \in 1..m : call.args[k].type \in {"string", "uint", "array"}
  BY CallArguments
<1>3. call.handler = r.handler /\ call.query = QueryArgs(r.query, splitQuerySegments(req.query))
  BY DEF Call
<1>4. r.query = Paged => DOMAIN call.query = {"limit", "page"}
  BY <1>3 DEF Paged, QueryArgs
<1> HIDE DEF call
<1>5. /\ r.handler = "POST_auth" => Len(call.args) = 0
      /\ r.handler \in {"GET_nonce", "GET_accountInfo"} => Len(call.args) = 1
      /\ r.handler \in {"GET_feature", "GET_transformation"} => Len(call.args) \in 1..2
      /\ r.handler = "GET_execute" => Len(call.args) \in 2..3
      /\ r.handler = "GET_accountInfo" => DOMAIN call.query = {"limit", "page"}
  BY <1>1, <1>2, <1>4 DEF Asks
<1>6. Arity(call)
  BY <1>3, <1>5 DEF Arity
<1> QED
  BY <1>2, <1>6 DEF call

-----------------------------------------------------------------------------
(* What a client fills in *)

LEMMA PathSequence ==
  ASSUME NEW path \in RoutePaths
  PROVE  Len(path) \in Nat /\ DOMAIN path = 1..Len(path)
<1>1. CASE path = <<>>
  BY <1>1
<1>2. CASE \E word : path = <<Literal(word)>>
  BY <1>2
<1>3. CASE path = Single
  BY <1>3, PatternSizes
<1>4. CASE path = Versioned
  BY <1>4, PatternSizes
<1>5. CASE path = Run
  BY <1>5, PatternSizes
<1> QED
  BY <1>1, <1>2, <1>3, <1>4, <1>5 DEF RoutePaths

\* Each part of a pattern takes a text for its type.
LEMMA PatternTexts ==
  /\ TextsOf(Single[1]) = HexTexts
  /\ TextsOf(Versioned[1]) = HexTexts /\ TextsOf(Versioned[2]) = HexTexts
  /\ TextsOf(Run[1]) = HexTexts /\ TextsOf(Run[2]) = Uint32Texts /\ TextsOf(Run[3]) = ListTexts
  /\ Single[1].type = "string" /\ Versioned[1].type = "string" /\ Versioned[2].type = "string"
  /\ Run[1].type = "string" /\ Run[2].type = "uint" /\ Run[3].type = "array"
<1>1. /\ TextsOf(Required("string")) = HexTexts /\ TextsOf(Optional("string")) = HexTexts
      /\ TextsOf(Required("uint")) = Uint32Texts /\ TextsOf(Optional("array")) = ListTexts
  BY DEF TextsOf, Required, Optional
<1>2. /\ Required("string").type = "string" /\ Optional("string").type = "string"
      /\ Required("uint").type = "uint" /\ Optional("array").type = "array"
  BY DEF Required, Optional
<1>3. /\ Single[1] = Required("string")
      /\ Versioned[1] = Required("string") /\ Versioned[2] = Optional("string")
      /\ Run[1] = Required("string") /\ Run[2] = Required("uint") /\ Run[3] = Optional("array")
  BY DEF Single, Versioned, Run
<1> QED
  BY <1>1, <1>2, <1>3, Zenon

\* Nothing that a client fills in holds a slash or is empty.
LEMMA TextsProper ==
  ASSUME NEW path \in RoutePaths, NEW i \in DOMAIN path, NEW text \in TextsOf(path[i])
  PROVE  /\ text # "/" /\ text # ""
         /\ text \in Texts \/ (path[i].kind = "literal" /\ text = path[i].text)
<1>1. CASE path = <<>>
  <2>1. DOMAIN path = {}
    BY <1>1
  <2> QED
    BY <2>1
<1>2. CASE path = <<Literal("simple_form.js")>> \/ path = <<Literal("simple_form.css")>>
  <2>1. PICK word \in {"simple_form.js", "simple_form.css"} : path = <<Literal(word)>>
    BY <1>2
  <2>2. path[i] = Literal(word)
    BY <2>1
  <2>3. TextsOf(path[i]) = {word} /\ path[i].kind = "literal" /\ path[i].text = word
    BY <2>2 DEF TextsOf, Literal
  <2> QED
    BY <2>3
<1>3. CASE path \in {Single, Versioned, Run}
  <2>1. TextsOf(path[i]) \in {HexTexts, Uint32Texts, ListTexts}
    <3>1. i \in 1..Len(path) /\ Len(path) \in {1, 2, 3}
      BY <1>3, PathSequence, PatternLengths
    <3>2. path = Single => i = 1
      BY <3>1, PatternLengths
    <3>3. path = Versioned => i \in {1, 2}
      BY <3>1, PatternLengths
    <3>4. path = Run => i \in {1, 2, 3}
      BY <3>1, PatternLengths
    <3> QED
      BY <1>3, <3>2, <3>3, <3>4, PatternTexts
  <2>2. text \in Texts
    BY <2>1, RoutingAssumption
  <2> QED
    BY <2>2, RoutingAssumption
<1> QED
  BY <1>1, <1>2, <1>3 DEF RoutePaths

\* Texts filled into a route are as many as it takes, each for its part.
LEMMA FillingMatches ==
  ASSUME NEW path \in RoutePaths, NEW texts \in Fillings(path)
  PROVE  \E n \in Nat :
           /\ n <= Len(path) /\ DOMAIN texts = 1..n /\ Len(texts) = n
           /\ texts = [i \in 1..n |-> texts[i]]
           /\ \A i \in 1..n : i \in DOMAIN path /\ texts[i] \in TextsOf(path[i])
           /\ PathMatches(path, texts)
<1>1. Len(path) \in Nat /\ DOMAIN path = 1..Len(path)
  BY PathSequence
<1>2. PICK n \in 0..Len(path) :
        /\ \A i \in n + 1..Len(path) : IsOptional(path[i])
        /\ texts \in [1..n -> UNION {TextsOf(path[i]) : i \in 1..n}]
        /\ \A i \in 1..n : texts[i] \in TextsOf(path[i])
  BY DEF Fillings
<1>3. n \in Nat /\ n <= Len(path)
  BY <1>1, <1>2
<1>4. DOMAIN texts = 1..n /\ texts = [i \in 1..n |-> texts[i]]
  BY <1>2
<1>5. Len(texts) = n
  BY <1>3, <1>4, LenOfFunction
<1>6. \A i \in 1..n : i \in DOMAIN path
  BY <1>1, <1>3
<1>7. ASSUME NEW i \in DOMAIN path, path[i].kind = "literal", i <= n
      PROVE  texts[i] = path[i].text
  <2>1. i \in 1..n
    BY <1>1, <1>3, <1>7
  <2> QED
    BY <1>2, <1>7, <2>1 DEF TextsOf
<1>8. PathMatches(path, texts)
  BY <1>1, <1>2, <1>3, <1>5, <1>7 DEF PathMatches
<1> QED
  BY <1>2, <1>3, <1>4, <1>5, <1>6, <1>8

-----------------------------------------------------------------------------
(* A URL that was written after a route is read as it was written *)

LEMMA Halves ==
  ASSUME NEW j \in Nat
  PROVE  /\ (2 * j) % 2 = 0 /\ (2 * j) \div 2 = j
         /\ (2 * j + 1) % 2 = 1 /\ (2 * j + 1) \div 2 = j
OBVIOUS

LEMMA OddOrEven ==
  ASSUME NEW k \in Nat
  PROVE  \E j \in Nat : k = 2 * j \/ k = 2 * j + 1
<1>1. k \div 2 \in Nat /\ (k = 2 * (k \div 2) \/ k = 2 * (k \div 2) + 1)
  OBVIOUS
<1> QED
  BY <1>1

LEMMA WrittenShape ==
  ASSUME NEW n \in Nat, NEW texts, Len(texts) = n
  PROVE  /\ Written(texts) = [k \in 1..2 * n |-> Written(texts)[k]]
         /\ Len(Written(texts)) = 2 * n /\ DOMAIN Written(texts) = 1..2 * n
         /\ \A j \in 1..n : Written(texts)[2 * j - 1] = "/" /\ Written(texts)[2 * j] = texts[j]
<1>1. 2 * n \in Nat
  OBVIOUS
<1>2. Written(texts) = [k \in 1..2 * n |-> IF k % 2 = 1 THEN "/" ELSE texts[k \div 2]]
  BY DEF Written
<1>3. ASSUME NEW j \in 1..n
      PROVE  Written(texts)[2 * j - 1] = "/" /\ Written(texts)[2 * j] = texts[j]
  <2>1. 2 * j \in 1..2 * n /\ 2 * j - 1 \in 1..2 * n
    OBVIOUS
  <2>2. (2 * j) % 2 = 0 /\ (2 * j) \div 2 = j
    BY Halves
  <2>3. (2 * j - 1) % 2 = 1
    BY Halves, j - 1 \in Nat, 2 * j - 1 = 2 * (j - 1) + 1
  <2> QED
    BY <1>2, <2>1, <2>2, <2>3
<1>4. Len(Written(texts)) = 2 * n /\ DOMAIN Written(texts) = 1..2 * n
  BY <1>1, <1>2, LenOfFunction
<1> QED
  BY <1>2, <1>3, <1>4

\* The slashes of a URL are before its texts.
LEMMA WrittenSlashes ==
  ASSUME NEW n \in Nat, NEW texts, Len(texts) = n, \A j \in 1..n : texts[j] # "/"
  PROVE  Slashes(Written(texts)) = {2 * j - 1 : j \in 1..n}
<1>1. \A k \in 1..2 * n : \E j \in 1..n : k = 2 * j \/ k = 2 * j - 1
  <2> SUFFICES ASSUME NEW k \in 1..2 * n PROVE \E j \in 1..n : k = 2 * j \/ k = 2 * j - 1
    OBVIOUS
  <2>1. PICK j \in Nat : k = 2 * j \/ k = 2 * j + 1
    <3>1. k \in Nat
      OBVIOUS
    <3> QED
      BY <3>1, OddOrEven
  <2>2. CASE k = 2 * j
    <3>1. j \in 1..n
      BY <2>2
    <3> QED
      BY <2>2, <3>1
  <2>3. CASE k = 2 * j + 1
    <3>1. j + 1 \in 1..n /\ k = 2 * (j + 1) - 1
      BY <2>3
    <3> QED
      BY <3>1
  <2> QED
    BY <2>1, <2>2, <2>3
<1>2. \A j \in 1..n : 2 * j - 1 \in 1..2 * n
  OBVIOUS
<1>3. \A k \in 1..2 * n : Written(texts)[k] = "/" <=> \E j \in 1..n : k = 2 * j - 1
  BY <1>1, WrittenShape
<1>4. Slashes(Written(texts)) = {k \in 1..2 * n : Written(texts)[k] = "/"}
  BY WrittenShape DEF Slashes
<1> DEFINE W == Written(texts)
<1> HIDE DEF W
<1>5. Slashes(W) = {k \in 1..2 * n : \E j \in 1..n : k = 2 * j - 1}
  BY <1>3, <1>4 DEF W
<1> QED
  BY <1>2, <1>5 DEF W

\* Segments are read as they were written.
LEMMA WrittenSegments ==
  ASSUME NEW n \in Nat, NEW texts, Len(texts) = n, texts = [j \in 1..n |-> texts[j]],
         \A j \in 1..n : texts[j] # "/"
  PROVE  splitPathSegments(Written(texts)) = texts
<1> DEFINE W == Written(texts)
           f == [j \in 1..n |-> 2 * j - 1]
<1>1. f \in [1..n -> Nat] /\ (\A i, j \in 1..n : i < j => f[i] < f[j])
  OBVIOUS
<1>2. Slashes(W) \ {Len(W)} = {f[j] : j \in 1..n}
  <2>1. Slashes(W) = {f[j] : j \in 1..n}
    BY WrittenSlashes
  <2>2. \A j \in 1..n : f[j] # 2 * n
    OBVIOUS
  <2>3. Len(W) = 2 * n
    BY WrittenShape
  <2> QED
    BY <2>1, <2>2, <2>3
<1>3. InOrder(Slashes(W) \ {Len(W)}) = f
  <2> HIDE DEF f
  <2> QED
    BY <1>1, <1>2, InOrderIs
<1>4. splitPathSegments(W) = [i \in 1..n |-> IF W[f[i] + 1] = "/" THEN "" ELSE W[f[i] + 1]]
  <2>1. DOMAIN f = 1..n
    OBVIOUS
  <2> HIDE DEF f, W
  <2> QED
    BY <1>3, <2>1 DEF splitPathSegments
<1>5. \A i \in 1..n : W[f[i] + 1] = texts[i]
  <2>1. \A i \in 1..n : f[i] + 1 = 2 * i
    OBVIOUS
  <2> HIDE DEF f
  <2> QED
    BY <2>1, WrittenShape
<1> HIDE DEF W, f
<1>6. splitPathSegments(W) = [i \in 1..n |-> texts[i]]
  BY <1>4, <1>5
<1> QED
  BY <1>6 DEF W

LEMMA SequenceOf ==
  ASSUME NEW m \in Nat, NEW S, NEW f \in [1..m -> S]
  PROVE  f \in Seq(S)
<1>1. [i \in 1..m |-> f[i]] \in Seq(S)
  OBVIOUS
<1>2. f = [i \in 1..m |-> f[i]]
  OBVIOUS
<1> QED
  BY <1>1, <1>2, Zenon

LEMMA MinIs ==
  ASSUME NEW S \in SUBSET Nat, NEW m \in S, \A i \in S : m <= i
  PROVE  Min(S) = m
<1>1. Min(S) \in S /\ Min(S) <= m
  BY LeastMember
<1>2. m \in Nat /\ Min(S) \in Nat /\ m <= Min(S)
  BY <1>1
<1> QED
  BY <1>1, <1>2

LEMMA NothingWritten ==
  ASSUME NEW texts, Len(texts) = 0
  PROVE  Written(texts) = <<>>
BY DEF Written

\* The places of the slashes in a URL but the first.
Odds(n) == {2 * j + 1 : j \in 1..n}

WordsOf(word, texts) ==
  {"/", word} \cup {Written(texts)[k] : k \in DOMAIN Written(texts)}

UrlOf(word, texts) == <<"/", word>> \o Written(texts)

\* Where things are in a URL of a module with a word.
LEMMA UrlShape ==
  ASSUME NEW n \in Nat, NEW texts, Len(texts) = n, \A j \in 1..n : texts[j] # "/",
         NEW word, word # "/"
  PROVE  LET S == WordsOf(word, texts)
             P == UrlOf(word, texts) IN
         /\ P \in Seq(S) /\ Len(P) = 2 * n + 2 /\ P[1] = "/" /\ P[2] = word
         /\ <<"/", word>> \in Seq(S) /\ Written(texts) \in Seq(S)
         /\ \A k \in 1..2 * n : P[k + 2] = Written(texts)[k]
         /\ Slashes(P) = {1} \cup Odds(n)
<1> DEFINE W == Written(texts)
           S == WordsOf(word, texts)
           P == UrlOf(word, texts)
<1>1. Len(W) = 2 * n /\ W = [k \in 1..2 * n |-> W[k]] /\ 2 * n \in Nat
  BY WrittenShape
<1>2. W \in Seq(S)
  <2>1. W \in [1..2 * n -> S]
    BY <1>1 DEF WordsOf
  <2> HIDE DEF W, S
  <2> QED
    BY <1>1, <2>1, SequenceOf
<1>3. <<"/", word>> \in Seq(S) /\ Len(<<"/", word>>) = 2
  BY DEF WordsOf
<1>4. Slashes(W) = {2 * j - 1 : j \in 1..n}
  BY WrittenSlashes
<1>5. DOMAIN W = 1..2 * n
  BY <1>1
<1> HIDE DEF W, S, P
<1>6. P \in Seq(S) /\ Len(P) = 2 * n + 2
  BY <1>1, <1>2, <1>3, ConcatProperties DEF W, P, UrlOf
<1>7. \A i \in 1..2 * n + 2 : P[i] = IF i <= 2 THEN <<"/", word>>[i] ELSE W[i - 2]
  BY <1>1, <1>2, <1>3, ConcatProperties DEF W, P, UrlOf
<1>8. P[1] = "/" /\ P[2] = word
  <2>1. /\ 1 \in 1..2 * n + 2 /\ 2 \in 1..2 * n + 2
        /\ <<"/", word>>[1] = "/" /\ <<"/", word>>[2] = word
    OBVIOUS
  <2> QED
    BY <1>7, <2>1
<1>9. \A k \in 1..2 * n : P[k + 2] = W[k]
  <2> SUFFICES ASSUME NEW k \in 1..2 * n PROVE P[k + 2] = W[k]
    OBVIOUS
  <2>1. k + 2 \in 1..2 * n + 2 /\ ~ (k + 2 <= 2) /\ (k + 2) - 2 = k
    OBVIOUS
  <2> QED
    BY <1>7, <2>1
<1>10. Slashes(P) = {1} \cup Odds(n)
  <2>1. DOMAIN P = 1..2 * n + 2
    BY <1>6
  <2>2. ASSUME NEW i \in 1..2 * n + 2, P[i] = "/", i # 1
        PROVE  \E j \in 1..n : i = 2 * j + 1
    <3>1. i # 2
      BY <1>8, <2>2
    <3>2. i - 2 \in 1..2 * n /\ i = (i - 2) + 2
      BY <2>2, <3>1
    <3>3. W[i - 2] = "/"
      BY <1>9, <2>2, <3>2
    <3>4. i - 2 \in Slashes(W)
      BY <1>5, <3>2, <3>3 DEF Slashes
    <3>5. PICK j \in 1..n : i - 2 = 2 * j - 1
      BY <1>4, <3>4
    <3>6. i = 2 * j + 1
      BY <3>5
    <3> QED
      BY <3>6
  <2>3. ASSUME NEW j \in 1..n PROVE 2 * j + 1 \in 1..2 * n + 2 /\ P[2 * j + 1] = "/"
    <3>1. 2 * j - 1 \in Slashes(W)
      BY <1>4
    <3>2. W[2 * j - 1] = "/" /\ 2 * j - 1 \in 1..2 * n
      BY <1>5, <3>1 DEF Slashes
    <3>3. (2 * j - 1) + 2 = 2 * j + 1 /\ 2 * j + 1 \in 1..2 * n + 2
      OBVIOUS
    <3> QED
      BY <1>9, <3>2, <3>3
  <2>4. 1 \in 1..2 * n + 2
    OBVIOUS
  <2>5. Slashes(P) = {i \in 1..2 * n + 2 : P[i] = "/"}
    BY <2>1 DEF Slashes
  <2>6. {1} \cup Odds(n) \subseteq Slashes(P)
    BY <1>8, <2>3, <2>4, <2>5 DEF Odds
  <2>7. Slashes(P) \subseteq {1} \cup Odds(n)
    BY <2>2, <2>5 DEF Odds
  <2> QED
    BY <2>6, <2>7
<1> QED
  BY <1>2, <1>3, <1>6, <1>8, <1>9, <1>10 DEF W, S, P

\* The module of a URL and what follows it are as the client put them together.
LEMMA UrlParts ==
  ASSUME NEW n \in Nat, NEW texts, Len(texts) = n, \A j \in 1..n : texts[j] # "/",
         NEW word, word # "/", NEW url, url.path = UrlOf(word, texts),
         n > 0 \/ url.query = <<>>
  PROVE  getPathModule(url) = <<"/", word>> /\ getPathInfo(url) = Written(texts)
<1> DEFINE W == Written(texts)
           P == UrlOf(word, texts)
           S == WordsOf(word, texts)
           slashes == Slashes(P)
           others == slashes \ {Min(slashes)}
<1>1. /\ P \in Seq(S) /\ Len(P) = 2 * n + 2 /\ P[1] = "/" /\ P[2] = word
      /\ <<"/", word>> \in Seq(S) /\ W \in Seq(S)
      /\ \A k \in 1..2 * n : P[k + 2] = W[k]
      /\ slashes = {1} \cup Odds(n)
  <2> HIDE DEF W, S, P, slashes
  <2>1. P \in Seq(S) /\ Len(P) = 2 * n + 2 /\ P[1] = "/" /\ P[2] = word
    BY UrlShape DEF S, P
  <2>2. <<"/", word>> \in Seq(S)
    BY UrlShape DEF S
  <2>3. W \in Seq(S)
    BY UrlShape DEF S, W
  <2>4. \A k \in 1..2 * n : P[k + 2] = W[k]
    BY UrlShape DEF P, W
  <2>5. slashes = {1} \cup Odds(n)
    BY UrlShape DEF P, slashes
  <2> QED
    BY <2>1, <2>2, <2>3, <2>4, <2>5
<1> HIDE DEF W, S, P, slashes
<1>2. Min(slashes) = 1
  <2>1. slashes \in SUBSET Nat /\ 1 \in slashes /\ \A i \in slashes : 1 <= i
    BY <1>1 DEF Odds
  <2> HIDE DEF slashes
  <2> QED
    BY <2>1, MinIs
<1>3. others = Odds(n)
  <2>1. 1 \notin Odds(n)
    BY DEF Odds
  <2> QED
    BY <1>1, <1>2, <2>1
<1>4. Len(W) = 2 * n
  BY WrittenShape DEF W
<1>5. SubSeq(P, 1, 2) = <<"/", word>>
  <2>1. \A i \in 1..2 : P[i] \in S
    BY <1>1, ElementOfSeq
  <2>2. /\ SubSeq(P, 1, 2) \in Seq(S) /\ Len(SubSeq(P, 1, 2)) = 2
        /\ \A i \in 1..2 : SubSeq(P, 1, 2)[i] = P[i]
    <3>1. /\ SubSeq(P, 1, 2) \in Seq(S) /\ Len(SubSeq(P, 1, 2)) = IF 1 <= 2 THEN 2 - 1 + 1 ELSE 0
          /\ \A i \in 1..2 - 1 + 1 : SubSeq(P, 1, 2)[i] = P[1 + i - 1]
      BY <2>1, SubSeqProperties
    <3> QED
      BY <3>1
  <2> DEFINE module == <<"/", word>>
             head == SubSeq(P, 1, 2)
  <2>3. Len(module) = 2 /\ module \in Seq(S) /\ \A i \in 1..2 : module[i] = P[i]
    BY <1>1
  <2>4. Len(head) = 2 /\ head \in Seq(S) /\ \A i \in 1..2 : head[i] = P[i]
    BY <2>2
  <2> HIDE DEF module, head
  <2>5. head = module
    BY <2>3, <2>4, SeqEqual
  <2> QED
    BY <2>5 DEF module, head
<1>6. CASE n = 0
  <2>1. slashes # {} /\ others = {}
    <3>1. Odds(n) = {}
      BY <1>6 DEF Odds
    <3> QED
      BY <1>1, <1>3, <3>1
  <2>2. getPathInfo(url) = <<>>
    BY <2>1 DEF getPathInfo, slashes, P
  <2>3. getPathModule(url) = SubSeq(P, 1, 2) \o <<>>
    <3>1. Len(P) = 2 /\ url.query = <<>>
      BY <1>1, <1>6
    <3> QED
      BY <1>2, <2>1, <3>1 DEF getPathModule, slashes, P
  <2>4. <<"/", word>> \o <<>> = <<"/", word>>
    BY <1>1, ConcatEmptySeq
  <2> QED
    BY <1>5, <1>6, <2>2, <2>3, <2>4, NothingWritten DEF W
<1>7. CASE n > 0
  <2>1. slashes # {} /\ others # {}
    <3>1. 3 \in Odds(n)
      BY <1>7, 1 \in 1..n, 2 * 1 + 1 = 3 DEF Odds
    <3> QED
      BY <1>1, <1>3, <3>1
  <2>2. Min(others) = 3
    <3>1. Odds(n) \in SUBSET Nat /\ 3 \in Odds(n) /\ \A i \in Odds(n) : 3 <= i
      <4>1. 1 \in 1..n /\ 2 * 1 + 1 = 3
        BY <1>7
      <4>2. 3 \in Odds(n)
        BY <4>1 DEF Odds
      <4> QED
        BY <4>2 DEF Odds
    <3>2. Min(Odds(n)) = 3
      BY <3>1, MinIs
    <3> QED
      BY <1>3, <3>2
  <2>3. getPathModule(url) = SubSeq(P, 1, 2)
    BY <1>2, <2>1, <2>2 DEF getPathModule, slashes, P
  <2>4. getPathInfo(url) = SubSeq(P, 3, 2 * n + 2)
    BY <1>1, <2>1, <2>2 DEF getPathInfo, slashes, P
  <2>5. SubSeq(P, 3, 2 * n + 2) = W
    <3>1. \A i \in 3..2 * n + 2 : P[i] \in S
      BY <1>1, ElementOfSeq
    <3>2. /\ SubSeq(P, 3, 2 * n + 2) \in Seq(S)
          /\ Len(SubSeq(P, 3, 2 * n + 2)) = IF 3 <= 2 * n + 2 THEN (2 * n + 2) - 3 + 1 ELSE 0
          /\ \A i \in 1..(2 * n + 2) - 3 + 1 : SubSeq(P, 3, 2 * n + 2)[i] = P[3 + i - 1]
      BY <3>1, SubSeqProperties
    <3>3. Len(SubSeq(P, 3, 2 * n + 2)) = 2 * n
      BY <1>7, <3>2
    <3>4. \A i \in 1..2 * n : SubSeq(P, 3, 2 * n + 2)[i] = W[i]
      <4>1. \A i \in 1..2 * n : i \in 1..(2 * n + 2) - 3 + 1 /\ 3 + i - 1 = i + 2
        OBVIOUS
      <4> QED
        BY <1>1, <3>2, <4>1
    <3> QED
      BY <1>1, <1>4, <3>2, <3>3, <3>4, SeqEqual
  <2> QED
    BY <1>5, <2>3, <2>4, <2>5 DEF W
<1> QED
  BY <1>6, <1>7

\* So is the query: every key has its value, in whatever order the keys were written.
LEMMA PagedQuery ==
  ASSUME NEW V, NEW values \in [DOMAIN Paged -> V], NEW keys \in SetToSeqs(DOMAIN Paged),
         NEW query, query = [k \in DOMAIN keys |-> <<keys[k], values[keys[k]]>>]
  PROVE  splitQuerySegments(query) = values
<1> DEFINE D == {"limit", "page"}
<1>1. DOMAIN Paged = D
  BY DEF Paged
<1>2. Cardinality(D) = 2
  <2>1. IsFiniteSet({"limit"}) /\ Cardinality({"limit"}) = 1
    BY FS_Singleton
  <2>2. Cardinality({"limit"} \cup {"page"}) = 2
    <3>1. "page" \notin {"limit"}
      OBVIOUS
    <3>2. Cardinality({"limit"} \cup {"page"}) = Cardinality({"limit"}) + 1
      BY <2>1, <3>1, FS_AddElement, Zenon
    <3> QED
      BY <2>1, <3>2
  <2>3. D = {"limit"} \cup {"page"}
    OBVIOUS
  <2> QED
    BY <2>2, <2>3
<1> HIDE DEF D
<1>3. keys \in [1..2 -> D] /\ keys[1] # keys[2]
  BY <1>1, <1>2 DEF SetToSeqs
<1>4. DOMAIN query = 1..2 /\ \A i \in 1..2 : query[i][1] = keys[i] /\ query[i][2] = values[keys[i]]
  BY <1>3
<1>5. {query[i][1] : i \in DOMAIN query} \ {""} = D
  <2>1. {query[i][1] : i \in DOMAIN query} = {keys[1], keys[2]}
    BY <1>4
  <2>2. {keys[1], keys[2]} = D
    BY <1>3 DEF D
  <2>3. "" \notin D
    BY DEF D
  <2> QED
    BY <2>1, <2>2, <2>3
<1>6. ASSUME NEW key \in D
      PROVE  query[Max({i \in DOMAIN query : query[i][1] = key})][2] = values[key]
  <2>1. PICK k \in 1..2 : keys[k] = key
    BY <1>3 DEF D
  <2>2. {i \in DOMAIN query : query[i][1] = key} = {k}
    BY <1>3, <1>4, <2>1
  <2>3. Max({k}) = k
    BY DEF Max
  <2> QED
    BY <1>4, <2>1, <2>2, <2>3
<1>7. splitQuerySegments(query) = [key \in D |-> values[key]]
  BY <1>5, <1>6 DEF splitQuerySegments
<1> QED
  BY <1>1, <1>7

\* The root of the server
LEMMA RootParts ==
  ASSUME NEW url, url.path = <<"/">>, url.query = <<>>
  PROVE  getPathModule(url) = <<"/">> /\ getPathInfo(url) = <<>>
<1>1. Slashes(url.path) = {1}
  BY DEF Slashes
<1>2. Min({1}) = 1
  BY DEF Min
<1>3. getPathInfo(url) = <<>>
  BY <1>1, <1>2 DEF getPathInfo
<1>4. getPathModule(url) = SubSeq(<<"/">>, 1, 1) \o <<>>
  BY <1>1, <1>2 DEF getPathModule
<1>5. SubSeq(<<"/">>, 1, 1) = <<"/">>
  <2> DEFINE root == <<"/">>
  <2>1. root \in Seq({"/"}) /\ Len(root) = 1 /\ root[1] = "/"
    OBVIOUS
  <2> HIDE DEF root
  <2>2. \A i \in 1..1 : root[i] \in {"/"}
    BY <2>1
  <2>3. /\ SubSeq(root, 1, 1) \in Seq({"/"}) /\ Len(SubSeq(root, 1, 1)) = 1
        /\ SubSeq(root, 1, 1)[1] = root[1]
    <3>1. /\ SubSeq(root, 1, 1) \in Seq({"/"})
          /\ Len(SubSeq(root, 1, 1)) = IF 1 <= 1 THEN 1 - 1 + 1 ELSE 0
          /\ \A i \in 1..1 - 1 + 1 : SubSeq(root, 1, 1)[i] = root[1 + i - 1]
      BY <2>2, SubSeqProperties
    <3> QED
      BY <3>1
  <2>4. SubSeq(root, 1, 1) = root
    BY <2>1, <2>3, SeqEqual
  <2> QED
    BY <2>4 DEF root
<1>6. <<"/">> \o <<>> = <<"/">>
  BY <<"/">> \in Seq({"/"}), ConcatEmptySeq
<1> QED
  BY <1>3, <1>4, <1>5, <1>6

\* A URL that was written after a route of main is read as it was meant, and the
\* route matches it.
LEMMA RequestRead ==
  ASSUME NEW r \in RouteSet, NEW texts \in Fillings(r.path),
         NEW values \in [DOMAIN r.query -> Uint32Texts], NEW keys \in SetToSeqs(DOMAIN r.query)
  PROVE  LET req == RequestFor(r, texts, values, keys) IN
         /\ req.method = r.method
         /\ getPathModule(req) = r.module
         /\ splitPathSegments(getPathInfo(req)) = texts
         /\ r.query = Paged => splitQuerySegments(req.query) = values
         /\ doesRouteMatch(r, req)
<1> DEFINE req == RequestFor(r, texts, values, keys)
<1>1. PICK word : r.module = ModuleOf(word) /\ word # "/" /\ Asks(word, r.path, r.query, r.handler)
  BY RouteShape
<1>2. r.path \in RoutePaths /\ r.query \in {<<>>, Paged}
  BY <1>1 DEF Asks
<1>3. PICK n \in Nat : /\ DOMAIN texts = 1..n /\ Len(texts) = n
                       /\ texts = [i \in 1..n |-> texts[i]]
                       /\ \A i \in 1..n : i \in DOMAIN r.path /\ texts[i] \in TextsOf(r.path[i])
                       /\ PathMatches(r.path, texts)
  BY <1>2, FillingMatches
<1>4. \A i \in 1..n : texts[i] # "/"
  BY <1>2, <1>3, TextsProper
<1>5. r.path = Single => n = 1
  BY <1>2, <1>3, MatchedArguments
<1>6. r.path = <<>> => n = 0
  BY <1>2, <1>3, MatchedArguments
<1>7. /\ req.method = r.method /\ req.path = r.module \o Written(texts)
      /\ req.query = [k \in DOMAIN keys |-> <<keys[k], values[keys[k]]>>]
  BY DEF RequestFor
<1>8. r.query = <<>> => req.query = <<>>
  <2> SUFFICES ASSUME r.query = <<>> PROVE req.query = <<>>
    OBVIOUS
  <2>1. DOMAIN r.query = {}
    OBVIOUS
  <2>2. keys \in [1..0 -> {}]
    BY <2>1, FS_EmptySet DEF SetToSeqs
  <2>3. DOMAIN keys = 1..0
    BY <2>2
  <2> QED
    BY <1>7, <2>3
<1>9. n > 0 \/ req.query = <<>>
  <2>1. CASE r.query = Paged
    <3>1. n = 1
      BY <1>1, <1>5, <2>1 DEF Asks
    <3> QED
      BY <3>1
  <2> QED
    BY <1>2, <1>8, <2>1
<1> HIDE DEF req
<1>10. getPathModule(req) = r.module /\ getPathInfo(req) = Written(texts)
  <2>1. CASE word = ""
    <3>1. r.path = <<>> /\ n = 0
      BY <1>1, <1>6, <2>1 DEF Asks
    <3>2. Written(texts) = <<>> /\ r.module = <<"/">>
      BY <1>1, <1>3, <2>1, <3>1, NothingWritten DEF ModuleOf
    <3>3. req.path = <<"/">> /\ req.query = <<>>
      <4>1. <<"/">> \o <<>> = <<"/">>
        BY <<"/">> \in Seq({"/"}), ConcatEmptySeq
      <4> QED
        BY <1>7, <1>9, <3>1, <3>2, <4>1
    <3> QED
      BY <3>2, <3>3, RootParts
  <2>2. CASE word # ""
    <3>1. r.module = <<"/", word>>
      BY <1>1, <2>2 DEF ModuleOf
    <3>2. req.path = UrlOf(word, texts)
      BY <1>7, <3>1 DEF UrlOf
    <3> QED
      BY <1>1, <1>3, <1>4, <1>9, <3>1, <3>2, UrlParts
  <2> QED
    BY <2>1, <2>2
<1>11. splitPathSegments(getPathInfo(req)) = texts
  BY <1>3, <1>4, <1>10, WrittenSegments
<1>12. r.query = Paged => splitQuerySegments(req.query) = values
  BY <1>7, PagedQuery
<1>13. QueryMatches(r.query, splitQuerySegments(req.query))
  <2>1. CASE r.query = <<>>
    BY <2>1 DEF QueryMatches
  <2>2. CASE r.query = Paged
    <3>1. DOMAIN values = DOMAIN r.query
      OBVIOUS
    <3> QED
      BY <1>12, <2>2, <3>1 DEF QueryMatches
  <2> QED
    BY <1>2, <2>1, <2>2
<1>14. doesRouteMatch(r, req)
  BY <1>3, <1>7, <1>10, <1>11, <1>13 DEF doesRouteMatch
<1> QED
  BY <1>7, <1>10, <1>11, <1>12, <1>14 DEF req

\* A URL is made of slashes, texts of clients and words of main.
LEMMA RequestPath ==
  ASSUME NEW r \in ToSet(Table), NEW texts \in Fillings(r.path), NEW values, NEW keys
  PROVE  RequestFor(r, texts, values, keys).path \in Seq(Pieces)
<1>1. r \in RouteSet
  BY TableInSet
<1>2. PICK word : r.module = ModuleOf(word) /\ Asks(word, r.path, r.query, r.handler)
  BY <1>1, RouteShape
<1>3. r.path \in RoutePaths
  BY <1>2 DEF Asks
<1>4. "/" \in Pieces /\ Texts \subseteq Pieces
  BY DEF Pieces
<1>5. ToSet(r.module) \cup {segment.text : segment \in Literals(r)} \subseteq Pieces
  BY DEF Pieces
<1>6. PICK n \in Nat : /\ DOMAIN texts = 1..n /\ Len(texts) = n
                       /\ \A i \in 1..n : i \in DOMAIN r.path /\ texts[i] \in TextsOf(r.path[i])
  BY <1>3, FillingMatches
<1>7. ASSUME NEW i \in 1..n PROVE texts[i] \in Pieces
  <2>1. texts[i] \in Texts \/ (r.path[i].kind = "literal" /\ texts[i] = r.path[i].text)
    BY <1>3, <1>6, TextsProper
  <2>2. CASE r.path[i].kind = "literal" /\ texts[i] = r.path[i].text
    <3>1. r.path[i] \in Literals(r)
      BY <1>6, <2>2 DEF Literals, ToSet
    <3> QED
      BY <1>5, <2>2, <3>1
  <2> QED
    BY <1>4, <2>1, <2>2
<1>8. r.module \in Seq(Pieces)
  <2>1. CASE word = ""
    <3>1. r.module = <<"/">>
      BY <1>2, <2>1 DEF ModuleOf
    <3> QED
      BY <1>4, <3>1
  <2>2. CASE word # ""
    <3>1. r.module = <<"/", word>>
      BY <1>2, <2>2 DEF ModuleOf
    <3>2. word \in ToSet(<<"/", word>>)
      <4>1. 2 \in DOMAIN <<"/", word>> /\ <<"/", word>>[2] = word
        OBVIOUS
      <4> QED
        BY <4>1 DEF ToSet
    <3>3. word \in Pieces
      BY <1>5, <3>1, <3>2
    <3> QED
      BY <1>4, <3>1, <3>3
  <2> QED
    BY <2>1, <2>2
<1>9. Written(texts) \in Seq(Pieces)
  <2>1. Written(texts) \in [1..2 * n -> Pieces]
    <3>1. ASSUME NEW k \in 1..2 * n PROVE Written(texts)[k] \in Pieces
      <4>1. k \in Nat
        OBVIOUS
      <4>2. PICK j \in Nat : k = 2 * j \/ k = 2 * j + 1
        BY <4>1, OddOrEven
      <4>3. CASE k = 2 * j
        <5>1. j \in 1..n
          BY <4>3
        <5> QED
          BY <1>6, <1>7, <4>3, <5>1, WrittenShape
      <4>4. CASE k = 2 * j + 1
        <5>1. j + 1 \in 1..n /\ k = 2 * (j + 1) - 1
          BY <4>4
        <5> QED
          BY <1>4, <1>6, <5>1, WrittenShape
      <4> QED
        BY <4>2, <4>3, <4>4
    <3> QED
      BY <1>6, <3>1, WrittenShape
  <2>2. 2 * n \in Nat
    OBVIOUS
  <2> QED
    BY <2>1, <2>2, SequenceOf
<1>10. RequestFor(r, texts, values, keys).path = r.module \o Written(texts)
  BY DEF RequestFor
<1> QED
  BY <1>8, <1>9, <1>10, ConcatProperties

LEMMA AcceptsByHandler ==
  ASSUME NEW call, Arity(call),
         call.handler = "GET_nonce" => parseAddress(call.args[1]),
         call.handler = "GET_accountInfo" => accountArguments(call),
         call.handler \in {"GET_feature", "GET_transformation"} => versionArguments(call),
         call.handler = "GET_execute" => executeArguments(call)
  PROVE  Accepts(call)
<1>1. CASE call.handler = "GET_nonce"
  BY <1>1 DEF Accepts
<1>2. CASE call.handler = "GET_accountInfo"
  BY <1>2 DEF Accepts
<1>3. CASE call.handler = "GET_feature"
  BY <1>3 DEF Accepts
<1>4. CASE call.handler = "GET_transformation"
  BY <1>4 DEF Accepts
<1>5. CASE call.handler = "GET_execute"
  BY <1>5 DEF Accepts
<1>6. CASE call.handler \notin {"GET_nonce", "GET_accountInfo", "GET_feature",
                               "GET_transformation", "GET_execute"}
  BY <1>6 DEF Accepts
<1> QED
  BY <1>1, <1>2, <1>3, <1>4, <1>5, <1>6

\* A handler converts whatever a client filled in for its route.
LEMMA Accepted ==
  ASSUME NEW r \in ToSet(Table), NEW texts \in Fillings(r.path),
         NEW values \in [DOMAIN r.query -> Uint32Texts], NEW keys \in SetToSeqs(DOMAIN r.query)
  PROVE  Accepts(Call(r, RequestFor(r, texts, values, keys)))
<1> DEFINE req == RequestFor(r, texts, values, keys)
           call == Call(r, req)
<1>1. r \in RouteSet
  BY TableInSet
<1>2. PICK word : Asks(word, r.path, r.query, r.handler)
  BY <1>1, RouteShape
<1>3. r.path \in RoutePaths
  BY <1>2 DEF Asks
<1>4. req.path \in Seq(Pieces)
  BY RequestPath
<1>5. /\ splitPathSegments(getPathInfo(req)) = texts
      /\ r.query = Paged => splitQuerySegments(req.query) = values
      /\ doesRouteMatch(r, req)
  BY <1>1, RequestRead
<1>6. PICK n \in Nat : /\ Len(texts) = n
                       /\ \A i \in 1..n : i \in DOMAIN r.path /\ texts[i] \in TextsOf(r.path[i])
  BY <1>3, FillingMatches
<1> HIDE DEF req
<1>7. Arity(call)
  BY <1>1, <1>4, <1>5, CallFits
<1>8. /\ Len(call.args) \in Nat
      /\ r.path = Single => Len(call.args) = 1
      /\ r.path = Versioned => Len(call.args) \in 1..2
      /\ r.path = Run => Len(call.args) \in 2..3
      /\ r.path \in {Single, Versioned, Run} =>
           \A k \in 1..Len(call.args) :
             call.args[k].type = r.path[k].type /\ call.args[k].text \in TextsOf(r.path[k])
  <2>1. PICK m \in Nat :
          /\ DOMAIN call.args = 1..m /\ Len(call.args) = m
          /\ r.path = Single => m = 1
          /\ r.path = Versioned => m \in 1..2
          /\ r.path = Run => m \in 2..3
          /\ r.path \in {Single, Versioned, Run} => m = Len(texts)
          /\ \A k \in 1..m : call.args[k].type = r.path[k].type /\ call.args[k].text = texts[k]
    BY <1>1, <1>4, <1>5, CallArguments
  <2> HIDE DEF call
  <2> QED
    BY <1>6, <2>1
<1>9. /\ call.handler = r.handler
      /\ call.query = QueryArgs(r.query, splitQuerySegments(req.query))
  BY DEF Call
<1> HIDE DEF call
<1>10. Uint32Texts \subseteq SizeTexts
  BY RoutingAssumption
<1>11. ASSUME call.handler \in {"GET_nonce", "GET_accountInfo"} PROVE parseAddress(call.args[1])
  <2>1. r.path = Single
    BY <1>2, <1>9, <1>11 DEF Asks
  <2>2. call.args[1].type = "string" /\ call.args[1].text \in HexTexts
    BY <1>8, <2>1, PatternTexts, 1 \in 1..1
  <2> QED
    BY <2>2 DEF parseAddress, parseString
<1>12. ASSUME call.handler = "GET_accountInfo" PROVE accountArguments(call)
  <2>1. r.query = Paged
    BY <1>2, <1>9, <1>12 DEF Asks
  <2>2. call.query = QueryArgs(Paged, values) /\ values \in [{"limit", "page"} -> Uint32Texts]
    BY <1>5, <1>9, <2>1 DEF Paged
  <2>3. ASSUME NEW key \in {"limit", "page"} PROVE parseSize(call.query[key])
    <3>1. call.query[key] = [type |-> Paged[key], text |-> values[key]]
      BY <2>2 DEF QueryArgs, Paged
    <3>2. Paged[key] = "uint" /\ values[key] \in SizeTexts
      BY <1>10, <2>2 DEF Paged
    <3> QED
      BY <3>1, <3>2 DEF parseSize
  <2> QED
    BY <1>11, <1>12, <2>3 DEF accountArguments
<1>13. ASSUME call.handler \in {"GET_feature", "GET_transformation"}
       PROVE  versionArguments(call)
  <2>1. r.path = Versioned
    BY <1>2, <1>9, <1>13 DEF Asks
  <2>2. Len(call.args) \in 1..2
    BY <1>8, <2>1
  <2>3. \A k \in 1..Len(call.args) :
          call.args[k].type = Versioned[k].type /\ call.args[k].text \in TextsOf(Versioned[k])
    BY <1>8, <2>1
  <2>4. call.args[1].type = "string"
    BY <2>2, <2>3, PatternTexts
  <2>5. Len(call.args) = 2 => call.args[2].type = "string" /\ call.args[2].text \in HexTexts
    BY <2>3, PatternTexts
  <2> QED
    BY <2>4, <2>5 DEF versionArguments, parseString, parseAddress
<1>14. ASSUME call.handler = "GET_execute" PROVE executeArguments(call)
  <2>1. r.path = Run
    BY <1>2, <1>9, <1>14 DEF Asks
  <2>2. Len(call.args) \in 2..3
    BY <1>8, <2>1
  <2>3. \A k \in 1..Len(call.args) :
          call.args[k].type = Run[k].type /\ call.args[k].text \in TextsOf(Run[k])
    BY <1>8, <2>1
  <2>4. call.args[1].type = "string"
    BY <2>2, <2>3, PatternTexts
  <2>5. call.args[2].type = "uint" /\ call.args[2].text \in Uint32Texts
    BY <2>2, <2>3, PatternTexts
  <2>6. Len(call.args) = 3 => call.args[3].type = "array" /\ call.args[3].text \in ListTexts
    BY <2>3, PatternTexts
  <2> QED
    BY <2>4, <2>5, <2>6 DEF executeArguments, parseString, parseUint32, parseInstances
<1>15. Accepts(call)
  BY <1>7, <1>11, <1>12, <1>13, <1>14, AcceptsByHandler, Zenon
<1> QED
  BY <1>15 DEF call, req

-----------------------------------------------------------------------------
(* The inductive invariant *)

\* The client that wants something wrote its URL after a route of main.
AskedFor ==
  \E i \in DOMAIN Table : \E texts \in Fillings(Table[i].path) :
    \E values \in [DOMAIN Table[i].query -> Uint32Texts],
       keys \in SetToSeqs(DOMAIN Table[i].query) :
      /\ request = RequestFor(Table[i], texts, values, keys)
      /\ asked = WishFor(Table[i], texts)

\* No route is dropped on the way into the router, and an answer is one that the
\* whole table gives.
RoutingInv ==
  /\ loaded \subseteq {"form", "icon"}
  /\ next \in 1..Len(Table) + 1
  /\ _routes = {Table[i] : i \in 1..next - 1}
  /\ request.path \in Seq(Pieces)
  /\ answer = Idle \/ (next = Len(Table) + 1 /\ answer \in findRoute(request))
  /\ request = NoRequest => asked = Anything
  /\ asked = Anything \/ (next = Len(Table) + 1 /\ AskedFor /\ answer \in findRoute(request))

\* One element more.
LEMMA UpToNext ==
  ASSUME NEW f, NEW k \in Nat \ {0}
  PROVE  {f[i] : i \in 1..k} = {f[i] : i \in 1..k - 1} \cup {f[k]}
<1>1. \A i \in 1..k : i \in 1..k - 1 \/ i = k
  OBVIOUS
<1>2. \A i \in 1..k - 1 : i \in 1..k
  OBVIOUS
<1>3. k \in 1..k
  OBVIOUS
<1> QED
  BY <1>1, <1>2, <1>3, Zenon

LEMMA TableLength ==
  Len(Table) \in Nat /\ DOMAIN Table = 1..Len(Table)
BY TableInSet, LenProperties

LEMMA RoutesFromTable ==
  ASSUME RoutingInv
  PROVE  _routes \subseteq ToSet(Table) /\ _routes \subseteq RouteSet
<1>1. next \in 1..Len(Table) + 1 /\ _routes = {Table[i] : i \in 1..next - 1}
  BY DEF RoutingInv
<1>2. \A i \in 1..next - 1 : i \in 1..Len(Table)
  BY <1>1, TableLength
<1>3. _routes \subseteq ToSet(Table)
  BY <1>1, <1>2, TableLength DEF ToSet
<1> QED
  BY <1>3, TableInSet

LEMMA InvInit == RoutingInit => RoutingInv
<1> SUFFICES ASSUME RoutingInit PROVE RoutingInv
  OBVIOUS
<1>1. next \in 1..Len(Table) + 1
  BY TableLength DEF RoutingInit
<1>2. {Table[i] : i \in 1..next - 1} = {}
  BY DEF RoutingInit
<1>3. request.path \in Seq(Pieces)
  BY EmptySeq DEF RoutingInit, NoRequest
<1> QED
  BY <1>1, <1>2, <1>3 DEF RoutingInit, RoutingInv

\* main is done before the first request: until then nobody was answered.
LEMMA BeforeRequests ==
  ASSUME RoutingInv, next <= Len(Table)
  PROVE  answer = Idle /\ asked = Anything
<1>1. next # Len(Table) + 1
  BY TableLength DEF RoutingInv
<1> QED
  BY <1>1 DEF RoutingInv

LEMMA AddKeepsInv ==
  ASSUME RoutingInv, addRoute
  PROVE  RoutingInv'
<1>1. next <= Len(Table) /\ next \in 1..Len(Table) + 1 /\ Len(Table) \in Nat
  BY TableLength DEF RoutingInv, addRoute
<1>2. Table[next] \in RouteSet
  BY <1>1, TableInSet, ElementOfSeq
<1>3. _routes' = _routes \cup {Table[next]}
  <2>1. ASSUME NEW r \in _routes, SameKey(r, Table[next])
        PROVE  r = Table[next]
    BY <1>2, <2>1, RoutesFromTable, RoutesDiffer DEF SameKey
  <2> QED
    BY <2>1 DEF addRoute
<1>4. Table' = Table /\ Pieces' = Pieces
  BY DEF addRoute, Table, Pieces
<1>5. next' = next + 1 /\ UNCHANGED <<loaded, request, asked, answer>>
  BY DEF addRoute
<1>6. _routes' = {Table[i] : i \in 1..next' - 1}
  <2>1. next \in Nat \ {0} /\ next' - 1 = next
    BY <1>1, <1>5
  <2>2. {Table[i] : i \in 1..next} = {Table[i] : i \in 1..next - 1} \cup {Table[next]}
    BY <2>1, UpToNext
  <2> QED
    BY <1>3, <2>1, <2>2 DEF RoutingInv
<1>7. next' \in 1..Len(Table) + 1
  BY <1>1, <1>5
<1>8. answer = Idle /\ asked = Anything
  BY <1>1, BeforeRequests
<1> QED
  BY <1>4, <1>5, <1>6, <1>7, <1>8 DEF RoutingInv

LEMMA AskKeepsInv ==
  ASSUME RoutingInv, ask
  PROVE  RoutingInv'
<1>1. PICK req \in Requests : request' = req /\ answer' \in findRoute(req)
  BY DEF ask
<1>2. next = Len(Table) + 1 /\ request = NoRequest
  BY TableLength DEF RoutingInv, ask, Listening
<1>3. Table' = Table /\ Pieces' = Pieces
  BY DEF ask, Table, Pieces
<1>4. UNCHANGED <<loaded, next, _routes, asked>>
  BY DEF ask
<1>5. req.path \in Seq(Pieces)
  <2>1. req.path \in Seq(Texts \cup {"/"}) /\ Texts \cup {"/"} \subseteq Pieces
    BY RoutingAssumption DEF Pieces
  <2> QED
    BY <2>1, SeqMonotonic
<1>6. asked = Anything
  BY <1>2 DEF RoutingInv
<1>7. findRoute(req)' = findRoute(req)
  BY <1>4 DEF findRoute
<1>8. answer' \in findRoute(request)'
  BY <1>1, <1>7 DEF findRoute
<1> QED
  BY <1>1, <1>2, <1>3, <1>4, <1>5, <1>6, <1>8 DEF RoutingInv

LEMMA AskForKeepsInv ==
  ASSUME RoutingInv, askFor
  PROVE  RoutingInv'
<1>1. PICK i \in DOMAIN Table : \E texts \in Fillings(Table[i].path) :
        \E values \in [DOMAIN Table[i].query -> Uint32Texts],
           keys \in SetToSeqs(DOMAIN Table[i].query) :
          /\ request' = RequestFor(Table[i], texts, values, keys)
          /\ asked' = WishFor(Table[i], texts)
          /\ answer' \in findRoute(request')
  BY DEF askFor
<1>2. PICK texts \in Fillings(Table[i].path) :
        \E values \in [DOMAIN Table[i].query -> Uint32Texts],
           keys \in SetToSeqs(DOMAIN Table[i].query) :
          /\ request' = RequestFor(Table[i], texts, values, keys)
          /\ asked' = WishFor(Table[i], texts)
          /\ answer' \in findRoute(request')
  BY <1>1
<1>3. PICK values \in [DOMAIN Table[i].query -> Uint32Texts],
           keys \in SetToSeqs(DOMAIN Table[i].query) :
          /\ request' = RequestFor(Table[i], texts, values, keys)
          /\ asked' = WishFor(Table[i], texts)
          /\ answer' \in findRoute(request')
  BY <1>2
<1>4. next = Len(Table) + 1
  BY TableLength DEF RoutingInv, askFor, Listening
<1>5. Table' = Table /\ Pieces' = Pieces
  BY DEF askFor, Table, Pieces
<1>6. UNCHANGED <<loaded, next, _routes>>
  BY DEF askFor
<1>7. Table[i] \in ToSet(Table) /\ Table[i] \in RouteSet
  BY TableInSet DEF ToSet
<1>8. request'.path \in Seq(Pieces)
  BY <1>3, <1>7, RequestPath
<1>9. request' # NoRequest
  <2>1. request'.method = Table[i].method
    BY <1>3 DEF RequestFor
  <2> QED
    BY <1>7, <2>1, RouteShape DEF NoRequest
<1>10. AskedFor'
  <2>1. \E j \in DOMAIN Table : \E t \in Fillings(Table[j].path) :
          \E v \in [DOMAIN Table[j].query -> Uint32Texts],
             k \in SetToSeqs(DOMAIN Table[j].query) :
            /\ request' = RequestFor(Table[j], t, v, k)
            /\ asked' = WishFor(Table[j], t)
    BY <1>3
  <2> QED
    BY <1>5, <2>1 DEF AskedFor
<1>11. answer' \in findRoute(request)'
  BY <1>3, <1>6 DEF findRoute
<1> QED
  BY <1>4, <1>5, <1>6, <1>8, <1>9, <1>10, <1>11 DEF RoutingInv

LEMMA RespondKeepsInv ==
  ASSUME RoutingInv, respond
  PROVE  RoutingInv'
<1>1. Table' = Table /\ Pieces' = Pieces
  BY DEF respond, Table, Pieces
<1>2. /\ request' = NoRequest /\ asked' = Anything /\ answer' = Idle
      /\ UNCHANGED <<loaded, next, _routes>>
  BY DEF respond
<1>3. request'.path \in Seq(Pieces)
  BY <1>2, EmptySeq DEF NoRequest
<1> QED
  BY <1>1, <1>2, <1>3 DEF RoutingInv

LEMMA StutterKeepsInv ==
  ASSUME RoutingInv, UNCHANGED routingVars
  PROVE  RoutingInv'
<1>1. /\ UNCHANGED <<loaded, next, _routes, request, asked, answer>>
      /\ Table' = Table /\ Pieces' = Pieces
  BY DEF routingVars, Table, Pieces
<1>2. findRoute(request)' = findRoute(request)
  BY <1>1 DEF findRoute
<1>3. AskedFor' = AskedFor
  BY <1>1 DEF AskedFor
<1> QED
  BY <1>1, <1>2, <1>3 DEF RoutingInv

\* main's table is kept whole, and answers follow it.
THEOREM RoutingInvariant == RoutingSpec => []RoutingInv
<1>1. RoutingInv /\ [RoutingNext]_routingVars => RoutingInv'
  BY AddKeepsInv, AskKeepsInv, AskForKeepsInv, RespondKeepsInv, StutterKeepsInv DEF RoutingNext
<1> QED
  BY <1>1, InvInit, PTL DEF RoutingSpec

-----------------------------------------------------------------------------
(* The properties *)

\* What an answer is: one of the two that call no handler, or a call that fits.
LEMMA AnswerShape ==
  ASSUME RoutingInv
  PROVE  /\ Arity(answer)
         /\ \A i \in DOMAIN answer.args : answer.args[i].type \in {"string", "uint", "array"}
<1>1. CASE answer = Idle
  BY <1>1 DEF Idle, Arity
<1>2. CASE answer = NotFound
  <2>1. answer.handler = "404 Not Found" /\ answer.args = <<>>
    BY <1>2 DEF NotFound
  <2>2. Arity(answer)
    BY <2>1 DEF Arity
  <2>3. DOMAIN <<>> = {}
    OBVIOUS
  <2> QED
    BY <2>1, <2>2, <2>3, Zenon
<1>3. CASE \E r \in _routes : doesRouteMatch(r, request) /\ answer = Call(r, request)
  <2>1. PICK r \in _routes : doesRouteMatch(r, request) /\ answer = Call(r, request)
    BY <1>3
  <2>2. r \in RouteSet /\ request.path \in Seq(Pieces)
    BY RoutesFromTable DEF RoutingInv
  <2> QED
    BY <2>1, <2>2, CallFits
<1>4. answer = Idle \/ answer \in findRoute(request)
  BY DEF RoutingInv
<1> QED
  BY <1>1, <1>2, <1>3, <1>4 DEF findRoute

\* The types: nothing but routes of main's table is in the router, and a handler
\* gets arguments of the three types that routes are declared with.
THEOREM RoutingTypeCorrect == RoutingSpec => []RoutingTypeOK
<1>1. RoutingInv => RoutingTypeOK
  BY RoutesFromTable, AnswerShape DEF RoutingTypeOK, RoutingInv
<1> QED
  BY <1>1, RoutingInvariant, PTL

\* Whatever a client sends, at most one route of main's table matches.
THEOREM OneRouteCorrect == RoutingSpec => []OneRouteMatches
<1>1. RoutingInv => OneRouteMatches
  <2> SUFFICES ASSUME RoutingInv, NEW r \in _routes, NEW s \in _routes,
                      doesRouteMatch(r, request), doesRouteMatch(s, request)
               PROVE  r = s
    BY DEF OneRouteMatches
  <2>1. r.method = s.method /\ r.module = s.module
    BY DEF doesRouteMatch
  <2> QED
    BY <2>1, RoutesFromTable, RoutesDiffer
<1> QED
  BY <1>1, RoutingInvariant, PTL

\* A handler is given as many arguments as its first guard lets through.
THEOREM ArgumentsFitCorrect == RoutingSpec => []ArgumentsFit
<1>1. RoutingInv => ArgumentsFit
  BY AnswerShape DEF ArgumentsFit
<1> QED
  BY <1>1, RoutingInvariant, PTL

\* A URL written after a route reaches its handler, with arguments it can convert.
THEOREM DeliveredCorrect == RoutingSpec => []Delivered
<1>1. RoutingInv => Delivered
  <2> SUFFICES ASSUME RoutingInv, asked # Anything
               PROVE  /\ answer.handler = asked.handler
                      /\ [i \in DOMAIN answer.args |-> answer.args[i].text] = asked.texts
                      /\ Accepts(answer)
    BY DEF Delivered
  <2>1. AskedFor /\ next = Len(Table) + 1 /\ answer \in findRoute(request)
    BY DEF RoutingInv
  <2>2. PICK i \in DOMAIN Table : \E texts \in Fillings(Table[i].path) :
          \E values \in [DOMAIN Table[i].query -> Uint32Texts],
             keys \in SetToSeqs(DOMAIN Table[i].query) :
            /\ request = RequestFor(Table[i], texts, values, keys)
            /\ asked = WishFor(Table[i], texts)
    BY <2>1 DEF AskedFor
  <2> DEFINE r == Table[i]
  <2>3. PICK texts \in Fillings(r.path) :
          \E values \in [DOMAIN r.query -> Uint32Texts], keys \in SetToSeqs(DOMAIN r.query) :
            request = RequestFor(r, texts, values, keys) /\ asked = WishFor(r, texts)
    BY <2>2
  <2>4. PICK values \in [DOMAIN r.query -> Uint32Texts], keys \in SetToSeqs(DOMAIN r.query) :
          request = RequestFor(r, texts, values, keys) /\ asked = WishFor(r, texts)
    BY <2>3
  <2>5. r \in ToSet(Table) /\ r \in RouteSet /\ r \in _routes
    <3>1. i \in 1..next - 1
      BY <2>1, TableLength
    <3> QED
      BY <3>1, TableInSet DEF ToSet, RoutingInv
  <2> HIDE DEF r
  <2>6. doesRouteMatch(r, request) /\ splitPathSegments(getPathInfo(request)) = texts
    BY <2>4, <2>5, RequestRead
  <2>7. PICK s \in _routes : doesRouteMatch(s, request) /\ answer = Call(s, request)
    BY <2>1, <2>5, <2>6 DEF findRoute
  <2>8. s = r
    BY <2>5, <2>6, <2>7, RoutesFromTable, RoutesDiffer DEF doesRouteMatch
  <2>9. answer.handler = asked.handler
    BY <2>4, <2>7, <2>8 DEF Call, WishFor
  <2>10. Accepts(answer)
    BY <2>4, <2>5, <2>7, <2>8, Accepted
  <2>11. [k \in DOMAIN answer.args |-> answer.args[k].text] = asked.texts
    <3> DEFINE arguments == Arguments(r.path, texts)
    <3>1. answer.args = PathArgs(r.path, texts)
      BY <2>6, <2>7, <2>8 DEF Call
    <3>2. answer.args = [k \in DOMAIN arguments |->
                           [type |-> r.path[arguments[k]].type, text |-> texts[arguments[k]]]]
      BY <3>1 DEF PathArgs
    <3>3. asked.texts = [k \in DOMAIN arguments |-> texts[arguments[k]]]
      BY <2>4 DEF WishFor
    <3> HIDE DEF arguments
    <3> QED
      BY <3>2, <3>3
  <2> QED
    BY <2>9, <2>10, <2>11
<1> QED
  BY <1>1, RoutingInvariant, PTL
=============================================================================
