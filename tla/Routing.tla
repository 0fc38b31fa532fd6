------------------------------ MODULE Routing ------------------------------
(***************************************************************************)
(* The router (src/server): main fills a table of routes, each a method    *)
(* and a URL pattern with a handler; findRoute walks the table, which is a *)
(* hash map without an order, until a route matches the request; the       *)
(* handler then converts the arguments it was given.  What the table       *)
(* declares of an argument and what the handler takes it for meet only at  *)
(* run time.                                                               *)
(***************************************************************************)
EXTENDS Naturals, Sequences, SequencesExt

CONSTANTS
  Texts,         \* texts between the slashes of a URL, or as values of a query
  HexTexts,      \* those that evmc::from_hex takes for an address
  SizeTexts,     \* those that stoull converts, in part or whole
  Uint32Texts,   \* those that are a number of 32 bits, and nothing more
  ListTexts,     \* those like [(1;2),(3;4)]
  Requests       \* what clients may send, whether it makes sense or not

ASSUME RoutingAssumption ==
  /\ HexTexts \cup SizeTexts \cup ListTexts \subseteq Texts
  /\ Uint32Texts \subseteq SizeTexts
  /\ \A req \in Requests : req.path \in Seq(Texts \cup {"/"})
  /\ "/" \notin Texts /\ "" \notin Texts

VARIABLES
  loaded,     \* which files of resources/ main could read
  next,       \* the next entry of main's list of routes
  _routes,    \* Router::_routes, with their handlers
  request,    \* the request being answered
  asked,      \* history: the handler and the arguments the client has in mind
  answer      \* what findRoute returned

routingVars == <<loaded, next, _routes, request, asked, answer>>

Idle == [handler |-> "none", args |-> <<>>, query |-> <<>>]
Anything == [handler |-> "any", texts |-> <<>>]
NotFound == [handler |-> "404 Not Found", args |-> <<>>, query |-> <<>>]

-----------------------------------------------------------------------------
(***************************************************************************)
(* URLs.  A path is a sequence of "/" and texts, no two texts in a row; a  *)
(* query is a sequence of pairs of key and value.  A slash in a query is   *)
(* left out: it changes nothing but a module that no route has anyway.     *)
(***************************************************************************)
Slashes(path) == {i \in DOMAIN path : path[i] = "/"}

\* Up to the second slash; with the whole query when there is none.
getPathModule(url) ==
  LET slashes == Slashes(url.path)
      others == slashes \ {Min(slashes)} IN
  IF slashes = {} THEN <<>>
  ELSE IF others # {} THEN SubSeq(url.path, Min(slashes), Min(others) - 1)
  ELSE SubSeq(url.path, Min(slashes), Len(url.path))
       \o (IF url.query = <<>> THEN <<>> ELSE <<"?">>)

\* From the second slash on.
getPathInfo(url) ==
  LET slashes == Slashes(url.path)
      others == slashes \ {Min(slashes)} IN
  IF slashes = {} \/ others = {} THEN <<>> ELSE SubSeq(url.path, Min(others), Len(url.path))

\* The numbers of a finite set, from the smallest on: k of them are not above the
\* k-th.
InOrder(S) ==
  [k \in 1..Cardinality(S) |-> CHOOSE i \in S : Cardinality({j \in S : j <= i}) = k]

\* What follows each slash, maybe nothing; a slash at the very end opens no segment.
splitPathSegments(info) ==
  LET starts == InOrder(Slashes(info) \ {Len(info)}) IN
  [i \in DOMAIN starts |-> IF info[starts[i] + 1] = "/" THEN "" ELSE info[starts[i] + 1]]

\* The last value of a key counts; an empty key is dropped.
splitQuerySegments(query) ==
  [key \in {query[i][1] : i \in DOMAIN query} \ {""} |->
     query[Max({i \in DOMAIN query : query[i][1] = key})][2]]

-----------------------------------------------------------------------------
(* Routes *)

Literal(text) == [kind |-> "literal", text |-> text]
Required(type) == [kind |-> "argument", type |-> type, requirement |-> "required"]
Optional(type) == [kind |-> "argument", type |-> type, requirement |-> "optional"]

Route(method, module, path, query, handler) ==
  [method |-> method, module |-> <<"/">> \o module, path |-> path, query |-> query,
   handler |-> handler]

Versioned == <<Required("string"), Optional("string")>>
Paged == [limit |-> "uint", page |-> "uint"]
Run == <<Required("string"), Required("uint"), Optional("array")>>

\* What a file of resources/ is served by.
FileRoutes(module, path, handler) ==
  <<Route("HEAD", module, path, <<>>, "HEAD_ServeFile"),
    Route("OPTIONS", module, path, <<>>, "OPTIONS_ServeFile"),
    Route("GET", module, path, <<>>, handler)>>

FormRoutes ==
  FileRoutes(<<>>, <<>>, "GET_ServeFile")
  \o FileRoutes(<<"js">>, <<Literal("simple_form.js")>>, "GET_ServeFile")
  \o FileRoutes(<<"styles">>, <<Literal("simple_form.css")>>, "GET_ServeFile")

IconRoutes == FileRoutes(<<"favicon.ico">>, <<>>, "GET_ServeBinaryFile")

ServiceRoutes ==
  <<Route("GET", <<"version">>, <<>>, <<>>, "GET_version"),
    Route("GET", <<"nonce">>, <<Required("string")>>, <<>>, "GET_nonce"),
    Route("OPTIONS", <<"auth">>, <<>>, <<>>, "OPTIONS_auth"),
    Route("POST", <<"auth">>, <<>>, <<>>, "POST_auth"),
    Route("OPTIONS", <<"refresh">>, <<>>, <<>>, "OPTIONS_refresh"),
    Route("POST", <<"refresh">>, <<>>, <<>>, "POST_refresh"),
    Route("OPTIONS", <<"account">>, <<Required("string")>>, Paged, "OPTIONS_accountInfo"),
    Route("GET", <<"account">>, <<Required("string")>>, Paged, "GET_accountInfo"),
    Route("OPTIONS", <<"feature">>, Versioned, <<>>, "OPTIONS_feature"),
    Route("GET", <<"feature">>, Versioned, <<>>, "GET_feature"),
    Route("POST", <<"feature">>, <<>>, <<>>, "POST_feature"),
    Route("OPTIONS", <<"transformation">>, Versioned, <<>>, "OPTIONS_transformation"),
    Route("GET", <<"transformation">>, Versioned, <<>>, "GET_transformation"),
    Route("POST", <<"transformation">>, <<>>, <<>>, "POST_transformation"),
    Route("OPTIONS", <<"execute">>, Run, <<>>, "OPTIONS_execute"),
    Route("GET", <<"execute">>, Run, <<>>, "GET_execute")>>

\* The calls of addRoute in main, in their order.
Table ==
  (IF "form" \in loaded THEN FormRoutes ELSE <<>>)
  \o (IF "icon" \in loaded THEN IconRoutes ELSE <<>>)
  \o ServiceRoutes

IsOptional(segment) == segment.kind = "argument" /\ segment.requirement = "optional"

\* The constructor of RouteKey throws otherwise.
OptionalsLast(path) ==
  \A i, j \in DOMAIN path : i < j /\ IsOptional(path[i]) => IsOptional(path[j])

\* (mutant) keys are compared as they are hashed for the most part, by the path
SamePath(r, s) == r.module = s.module /\ r.path = s.path

SameKey(r, s) ==
  r.method = s.method /\ r.module = s.module /\ r.path = s.path /\ r.query = s.query

NoRequest == [method |-> "none", path |-> <<>>, query |-> <<>>]

RoutingInit ==
  /\ loaded \in SUBSET {"form", "icon"}
  /\ next = 1 /\ _routes = {}
  /\ request = NoRequest /\ asked = Anything /\ answer = Idle

\* main adds its next route; a route whose key is there already is dropped.
addRoute ==
  /\ next <= Len(Table)
  /\ LET route == Table[next] IN
     /\ OptionalsLast(route.path)
     /\ _routes' = IF \E r \in _routes : SameKey(r, route) THEN _routes ELSE _routes \cup {route}
  /\ next' = next + 1
  /\ UNCHANGED <<loaded, request, asked, answer>>

-----------------------------------------------------------------------------
(* findRoute *)

\* (mutant) required arguments may be missing as well
PathMatchesShort(path, segments) ==
  /\ Len(segments) <= Len(path)
  /\ \A i \in DOMAIN path :
       IF i > Len(segments) THEN path[i].kind = "argument"
       ELSE path[i].kind = "literal" => segments[i] = path[i].text

\* Each part of the pattern takes one segment; only optional parts do without.
PathMatches(path, segments) ==
  /\ Len(segments) <= Len(path)
  /\ \A i \in DOMAIN path :
       IF i > Len(segments) THEN IsOptional(path[i])
       ELSE path[i].kind = "literal" => segments[i] = path[i].text

\* Every query argument that main declares is required.
QueryMatches(query, values) == DOMAIN query \subseteq DOMAIN values

\* (mutant) the method is not compared
doesPathMatch(route, req) ==
  /\ route.module = getPathModule(req)
  /\ PathMatches(route.path, splitPathSegments(getPathInfo(req)))
  /\ QueryMatches(route.query, splitQuerySegments(req.query))

doesRouteMatch(route, req) ==
  /\ route.method = req.method
  /\ route.module = getPathModule(req)
  /\ PathMatches(route.path, splitPathSegments(getPathInfo(req)))
  /\ QueryMatches(route.query, splitQuerySegments(req.query))

\* The segments that arguments of the pattern took.
Arguments(path, segments) ==
  InOrder({i \in DOMAIN segments : path[i].kind = "argument"})

\* (mutant) an argument has the type of the pattern's part before it
PathArgsBefore(path, segments) ==
  LET arguments == Arguments(path, segments) IN
  [k \in DOMAIN arguments |->
     [type |-> IF k = 1 THEN "literal" ELSE path[arguments[k - 1]].type,
      text |-> segments[arguments[k]]]]

PathArgs(path, segments) ==
  LET arguments == Arguments(path, segments) IN
  [k \in DOMAIN arguments |->
     [type |-> path[arguments[k]].type, text |-> segments[arguments[k]]]]

QueryArgs(query, values) ==
  [key \in DOMAIN query |-> [type |-> query[key], text |-> values[key]]]

Call(route, req) ==
  [handler |-> route.handler,
   args |-> PathArgs(route.path, splitPathSegments(getPathInfo(req))),
   query |-> QueryArgs(route.query, splitQuerySegments(req.query))]

\* The walk over the hash map ends at any route that matches.
findRoute(req) ==
  LET found == {route \in _routes : doesRouteMatch(route, req)} IN
  IF found = {} THEN {NotFound} ELSE {Call(route, req) : route \in found}

-----------------------------------------------------------------------------
(* The handlers take their arguments apart: parseRouteArgAs of route_arg.   *)

parseString(arg) == arg.type = "string"
parseSize(arg) == arg.type = "uint" /\ arg.text \in SizeTexts
parseUint32(arg) == arg.type = "uint" /\ arg.text \in Uint32Texts
parseInstances(arg) == arg.type = "array" /\ arg.text \in ListTexts
parseAddress(arg) == parseString(arg) /\ arg.text \in HexTexts

\* The number of arguments that the first guard of a handler lets through.
Arity(call) ==
  CASE call.handler = "GET_nonce" -> Len(call.args) = 1
    [] call.handler = "POST_auth" -> Len(call.args) = 0
    [] call.handler = "GET_accountInfo" ->
         Len(call.args) = 1 /\ DOMAIN call.query = {"limit", "page"}
    [] call.handler \in {"GET_feature", "GET_transformation"} -> Len(call.args) \in 1..2
    [] call.handler = "GET_execute" -> Len(call.args) \in 2..3
    [] OTHER -> TRUE

accountArguments(call) ==
  parseAddress(call.args[1]) /\ parseSize(call.query["limit"]) /\ parseSize(call.query["page"])

versionArguments(call) ==
  parseString(call.args[1]) /\ (Len(call.args) = 2 => parseAddress(call.args[2]))

executeArguments(call) ==
  /\ parseString(call.args[1]) /\ parseUint32(call.args[2])
  /\ Len(call.args) = 3 => parseInstances(call.args[3])

\* The handler goes on to its work: no 400 for its arguments.
Accepts(call) ==
  /\ Arity(call)
  /\ CASE call.handler = "GET_nonce" -> parseAddress(call.args[1])
       [] call.handler = "GET_accountInfo" -> accountArguments(call)
       [] call.handler \in {"GET_feature", "GET_transformation"} -> versionArguments(call)
       [] call.handler = "GET_execute" -> executeArguments(call)
       [] OTHER -> TRUE

-----------------------------------------------------------------------------
(* Clients *)

Listening == next > Len(Table) /\ request = NoRequest

\* A client that sends anything.
ask ==
  /\ Listening
  /\ \E req \in Requests : request' = req /\ answer' \in findRoute(req)
  /\ UNCHANGED <<loaded, next, _routes, asked>>

TextsOf(segment) ==
  IF segment.kind = "literal" THEN {segment.text}
  ELSE CASE segment.type = "string" -> HexTexts
         [] segment.type = "uint" -> Uint32Texts
         [] segment.type = "array" -> ListTexts

\* Texts for the segments of a route, the optional ones maybe left out.
Fillings(path) ==
  UNION {{texts \in [1..n -> UNION {TextsOf(path[i]) : i \in 1..n}] :
            \A i \in 1..n : texts[i] \in TextsOf(path[i])} :
         n \in {n \in 0..Len(path) : \A i \in n + 1..Len(path) : IsOptional(path[i])}}

\* A slash before each text
Written(texts) ==
  [k \in 1..2 * Len(texts) |-> IF k % 2 = 1 THEN "/" ELSE texts[k \div 2]]

\* A URL written after a route, its query arguments in any order
RequestFor(route, texts, values, keys) ==
  [method |-> route.method, path |-> route.module \o Written(texts),
   query |-> [k \in DOMAIN keys |-> <<keys[k], values[keys[k]]>>]]

WishFor(route, texts) ==
  LET arguments == Arguments(route.path, texts) IN
  [handler |-> route.handler, texts |-> [k \in DOMAIN arguments |-> texts[arguments[k]]]]

\* A client that has read the routes of main, and fills one in.
askFor ==
  /\ Listening
  /\ \E i \in DOMAIN Table :
       LET route == Table[i] IN
       \E texts \in Fillings(route.path), values \in [DOMAIN route.query -> Uint32Texts],
          keys \in SetToSeqs(DOMAIN route.query) :
         /\ request' = RequestFor(route, texts, values, keys)
         /\ asked' = WishFor(route, texts)
         /\ answer' \in findRoute(request')
  /\ UNCHANGED <<loaded, next, _routes>>

\* The response is sent.
respond ==
  /\ request # NoRequest
  /\ request' = NoRequest /\ asked' = Anything /\ answer' = Idle
  /\ UNCHANGED <<loaded, next, _routes>>

RoutingNext == addRoute \/ ask \/ askFor \/ respond

RoutingSpec == RoutingInit /\ [][RoutingNext]_routingVars

-----------------------------------------------------------------------------
\* What paths are made of: slashes, texts of clients and the words of main's routes.
Literals(route) == {segment \in ToSet(route.path) : segment.kind = "literal"}

Pieces ==
  {"/"} \cup Texts \cup
  UNION {ToSet(route.module) \cup {segment.text : segment \in Literals(route)} :
           route \in ToSet(Table)}

\* The type invariant
RoutingTypeOK ==
  /\ loaded \subseteq {"form", "icon"}
  /\ next \in 1..Len(Table) + 1
  /\ _routes \subseteq ToSet(Table)
  /\ request.path \in Seq(Pieces)
  /\ \A i \in DOMAIN answer.args : answer.args[i].type \in {"string", "uint", "array"}

\* Whatever a client sends, at most one route of main's table matches, so the
\* handler does not depend on the order of the hash map (Router::findRoute).
OneRouteMatches ==
  request # NoRequest =>
    \A r, s \in _routes : doesRouteMatch(r, request) /\ doesRouteMatch(s, request) => r = s

\* Whatever a client sends, a handler that is reached gets as many arguments as it
\* can use: the table of main and the guards of the handlers agree (src/api).
ArgumentsFit == Arity(answer)

\* A URL written after a route of main's list reaches that route's handler, with
\* the texts that were filled in, and the handler can convert them: no route is
\* shadowed or dropped, and no type declared in main differs from the type that
\* the handler parses (main.cpp, route.cpp, src/api).
Delivered ==
  asked # Anything =>
    /\ answer.handler = asked.handler
    /\ [i \in DOMAIN answer.args |-> answer.args[i].text] = asked.texts
    /\ Accepts(answer)
=============================================================================
