-------------------------------- MODULE Routes --------------------------------
(***************************************************************************)
(* The routes of a service: registered one by one when the server is       *)
(* built, matched in that order, and described by an OpenAPI document that *)
(* is made from the declaration, not from the router.                      *)
(*                                                                         *)
(* A pattern is a sequence of segments and the way it is spelled: with a   *)
(* slash in front ("rooted"), without one ("bare"), or with one at the end *)
(* ("trailing"), which normalizePath drops.  A segment is a text, before   *)
(* and after whatever is in it of the form ":name".  So ":id" is [before   *)
(* |-> Blank, name |-> id, after |-> Blank], "a:id" and ":id-b" have both  *)
(* a name and a text around it, and a word has no name.                    *)
(***************************************************************************)
EXTENDS Naturals, Sequences

CONSTANTS
    Blank,          \* no text
    Texts,          \* segments of patterns
    Parts,          \* segments of the paths that are asked for
    Methods,
    MaxRoutes,      \* bound: routes of a service
    MaxSegments,    \* bound: segments of a pattern
    MaxPrefix       \* bound: segments of a prefix

\* A text is a word of its own when there is no name in it.
IsText(t) ==
    /\ DOMAIN t = {"before", "name", "after"}
    /\ t.name = Blank => t.before # Blank /\ t.after = Blank

ASSUME RoutesAssumption ==
    /\ \A t \in Texts \cup Parts : IsText(t)
    /\ MaxRoutes \in Nat /\ MaxSegments \in Nat /\ MaxPrefix \in Nat

VARIABLES
    prefix,     \* the service's: segments before those of any pattern
    routes,     \* the service's, as declared
    router,     \* the positions of those registered, in order
    state,      \* of the server: "building", "refused" (an error) or "serving"
    asked,      \* the request: its method and path, NoRequest before; bound: one,
                \* as the router keeps nothing of it
    match       \* the position of the route it matched, 0 for none, and the parameters

rtVars == <<prefix, routes, router, state, asked, match>>

UpTo(n, S) == UNION {[1..k -> S] : k \in 0..n}

Pattern == [segments : UpTo(MaxSegments, Texts),
            spelling : {"rooted", "bare", "trailing"}]

\* The root has one spelling only.
Route == {r \in [method : Methods, pattern : Pattern] :
            r.pattern.segments = <<>> => r.pattern.spelling = "rooted"}

NoRequest == [method |-> "none", path |-> <<>>]
NoMatch == [route |-> 0, params |-> <<>>]

\* parsePattern: a part with a colon in front is a parameter, the rest its name.
IsParam(t)   == t.before = Blank /\ t.name # Blank
ParamName(t) == <<t.name, t.after>>

RtTypeOK ==
    /\ prefix \in UpTo(MaxPrefix, Texts)
    /\ \A i \in DOMAIN routes : routes[i] \in Route
    /\ router \in Seq(DOMAIN routes)
    /\ state \in {"building", "refused", "serving"}
    /\ match.route \in {0} \cup DOMAIN routes
    /\ DOMAIN match.params \subseteq {ParamName(t) : t \in Texts}

RtInit ==
    /\ prefix \in UpTo(MaxPrefix, Texts)
    /\ routes \in UpTo(MaxRoutes, Route)
    \* A bare pattern would run into a prefix.
    /\ prefix # <<>> => \A i \in DOMAIN routes : routes[i].pattern.spelling # "bare"
    /\ router = <<>> /\ state = "building"
    /\ asked = NoRequest /\ match = NoMatch

\* normalizePath.
Normal(p) == IF p.spelling = "trailing" THEN [p EXCEPT !.spelling = "rooted"] ELSE p

Upcoming == Len(router) + 1

Clashes(i, j) ==
    /\ routes[i].method = routes[j].method
    /\ Normal(routes[i].pattern) = Normal(routes[j].pattern)

\* Router.Register, of the next declared route: a second of the same method
\* and pattern is an error, and there is no server.  All have the same prefix.
Register ==
    /\ state = "building" /\ Upcoming \in DOMAIN routes
    /\ IF \E n \in DOMAIN router : Clashes(router[n], Upcoming)
       THEN state' = "refused" /\ UNCHANGED router
       ELSE router' = Append(router, Upcoming) /\ UNCHANGED state
    /\ UNCHANGED <<prefix, routes, asked, match>>

Serve ==
    /\ state = "building" /\ Len(router) = Len(routes)
    /\ state' = "serving"
    /\ UNCHANGED <<prefix, routes, router, asked, match>>

-----------------------------------------------------------------------------

\* What a registered route could be made of: its pattern alone.
Unprefixed(r) == r.pattern.segments

\* What a registered route is made of: prefix + route.Pattern.
Segments(r) == prefix \o r.pattern.segments

Fits(r, method, path) ==
    /\ r.method = method
    /\ Len(Segments(r)) = Len(path)
    /\ \A i \in DOMAIN path : IsParam(Segments(r)[i]) \/ Segments(r)[i] = path[i]

\* What a parameter is bound to: of two of a name, the last.
Bindings(r, path) ==
    LET Named(x) == {i \in DOMAIN path : IsParam(Segments(r)[i]) /\ ParamName(Segments(r)[i]) = x}
    IN [x \in {ParamName(Segments(r)[i]) : i \in {k \in DOMAIN path : IsParam(Segments(r)[k])}} |->
           path[CHOOSE i \in Named(x) : \A j \in Named(x) : j <= i]]

\* What Match could be: the last that fits.
MatchLast ==
    /\ state = "serving" /\ asked = NoRequest
    /\ \E method \in Methods, path \in UpTo(MaxPrefix + MaxSegments, Parts) :
         LET fitting == {n \in DOMAIN router : Fits(routes[router[n]], method, path)} IN
         /\ asked' = [method |-> method, path |-> path]
         /\ match' =
              IF fitting = {} THEN NoMatch
              ELSE LET last == router[CHOOSE n \in fitting : \A k \in fitting : k <= n] IN
                   [route |-> last, params |-> Bindings(routes[last], path)]
    /\ UNCHANGED <<prefix, routes, router, state>>

\* Router.Match: the first registered that fits, with its parameters bound.
\* (Only GET /openapi.json is answered before the router is asked: see Service.)
Match ==
    /\ state = "serving" /\ asked = NoRequest
    /\ \E method \in Methods, path \in UpTo(MaxPrefix + MaxSegments, Parts) :
         LET fitting == {n \in DOMAIN router : Fits(routes[router[n]], method, path)} IN
         /\ asked' = [method |-> method, path |-> path]
         /\ match' =
              IF fitting = {} THEN NoMatch
              ELSE LET first == router[CHOOSE n \in fitting : \A k \in fitting : n <= k] IN
                   [route |-> first, params |-> Bindings(routes[first], path)]
    /\ UNCHANGED <<prefix, routes, router, state>>

RtNext == Register \/ Serve \/ Match

RtSpec == RtInit /\ [][RtNext]_rtVars

-----------------------------------------------------------------------------
(* GenerateOpenAPI: one operation per path and method of the declaration,  *)
(* a later one in the place of an earlier, with the parameters of its path.*)
(* It looks for ":name" anywhere in a pattern, and leaves the prefix out.  *)

\* convertPath is one to one: no pattern has braces of its own.
Slot(r) == <<r.pattern, r.method>>

Documented == [s \in {Slot(routes[i]) : i \in DOMAIN routes} |->
                 CHOOSE i \in DOMAIN routes :
                    Slot(routes[i]) = s /\ \A j \in DOMAIN routes : Slot(routes[j]) = s => j <= i]

\* The names that paramRegex finds: up to what is no part of a name.
Parameters(segments) ==
    {<<t.name, Blank>> : t \in {segments[i] : i \in {k \in DOMAIN segments : segments[k].name # Blank}}}

\* A segment "{name}" is any part of a path, a word is itself.
Describes(r, method, path) ==
    LET segments == r.pattern.segments IN
    /\ r.method = method /\ Len(segments) = Len(path)
    /\ \A i \in DOMAIN path : segments[i].name # Blank \/ segments[i] = path[i]

\* Properties.

\* A server that serves has documented every route, each apart.
DocumentIsComplete ==
    state = "serving" => \A i \in DOMAIN routes : Documented[Slot(routes[i])] = i

\* Of such segments the router and the document make the same: every name is
\* a whole segment.
ReadAlike(segments) ==
    \A i \in DOMAIN segments :
        segments[i].name # Blank => segments[i].before = Blank /\ segments[i].after = Blank

\* The document is of the paths behind the prefix.
BehindPrefix(path) == SubSeq(path, Len(prefix) + 1, Len(path))
UnderPrefix(path) ==
    /\ Len(prefix) <= Len(path)
    /\ \A i \in DOMAIN prefix : prefix[i].name # Blank \/ prefix[i] = path[i]

BothRead == {i \in DOMAIN routes : ReadAlike(routes[i].pattern.segments)}
Describing(method, path) ==
    {i \in BothRead : UnderPrefix(path) /\ Describes(routes[i], method, BehindPrefix(path))}
Promised(i) == Parameters(prefix) \cup Parameters(routes[i].pattern.segments)

\* A request under the prefix that a documented operation describes is
\* answered by it or by a route declared before it; and a route answers only
\* what its operation describes, with the parameters documented and those of
\* the prefix.  All this of what the router and the document read alike.
DocumentedIsServed ==
    asked # NoRequest /\ ReadAlike(prefix) =>
        /\ \A i \in Describing(asked.method, asked.path) : match.route \in 1..i
        /\ match.route \in BothRead =>
              /\ match.route \in Describing(asked.method, asked.path)
              /\ DOMAIN match.params = Promised(match.route)

\* The document and the router are two views of the same routes, behind the
\* prefix, which the document does not show.
DocumentIsTrue == DocumentIsComplete /\ DocumentedIsServed
=============================================================================
