--------------------------- MODULE PortalMainProofs ---------------------------
(***************************************************************************)
(* ServesOnlyWhenReady for every set of connections and paths.  It is not *)
(* inductive by itself: a request is accepted in the serving phase, so    *)
(* the proof carries what each phase of main has already established: a   *)
(* valid configuration once validation is passed, every route once        *)
(* registration is passed, and no request before the server listens.     *)
(*                                                                         *)
(* RoutedAsIntended for every set of connections and paths.  A response   *)
(* is the mux's answer for its connection's request, given while serving; *)
(* since the mux then holds the registered routes, it rests on a lemma    *)
(* about ServeMux.match: on those routes it answers every path as main   *)
(* intends.                                                               *)
(***************************************************************************)
EXTENDS PortalMain, TLAPS

ConnType == req \in [Conns -> Paths \cup {NoReq}]

Ready ==
    /\ pc \in {"statik", "handle", "listen", "serving"} => cfg = "valid"
    /\ pc \in {"listen", "serving"} => mux = Routes
    /\ pc # "serving" => \A k \in Conns : req[k] = NoReq

RInv == ConnType /\ Ready

LEMMA InitRInv == Init => RInv
BY DEF Init, RInv, ConnType, Ready

LEMMA NextRInv == RInv /\ [Next]_vars => RInv'
<1> SUFFICES ASSUME RInv, [Next]_vars PROVE RInv'
    OBVIOUS
<1> USE DEF RInv, ConnType, Ready
<1>1. CASE Parse
    BY <1>1 DEF Parse
<1>2. CASE Validate
    BY <1>2 DEF Validate
<1>3. CASE OpenStatik
    BY <1>3 DEF OpenStatik
<1>4. CASE Register
    BY <1>4 DEF Register, Routes
<1>5. CASE Listen
    BY <1>5 DEF Listen
<1>6. CASE ServeFail
    BY <1>6 DEF ServeFail
<1>7. ASSUME NEW k \in Conns, NEW p \in Paths, Accept(k, p) PROVE RInv'
    BY <1>7 DEF Accept
<1>8. ASSUME NEW k \in Conns, Respond(k) PROVE RInv'
    BY <1>8 DEF Respond
<1>9. ASSUME NEW k \in Conns, Finish(k) PROVE RInv'
    BY <1>9 DEF Finish
<1>10. CASE UNCHANGED vars
    BY <1>10 DEF vars
<1>11. QED
    BY <1>1, <1>2, <1>3, <1>4, <1>5, <1>6, <1>7, <1>8, <1>9, <1>10 DEF Next

(* No connection of dm-portal carries a request unless main validated the *)
(* configuration and registered the static server and every API route     *)
(* before ListenAndServe, for any number of connections and paths.        *)
THEOREM ServesOnlyWhenReadyHolds == Spec => []ServesOnlyWhenReady
<1>1. RInv => ServesOnlyWhenReady
    BY DEF RInv, Ready, ServesOnlyWhenReady
<1>2. QED
    BY <1>1, InitRInv, NextRInv, PTL DEF Spec

-----------------------------------------------------------------------------
(* RoutedAsIntended.  A response is the mux's answer for the request of   *)
(* its connection, given while serving with the registered routes; so it  *)
(* comes down to what ServeMux.match makes of Routes for each path.       *)
Answered ==
    /\ DOMAIN resp = Conns
    /\ pc # "serving" => \A k \in Conns : resp[k] = "none"
    /\ \A k \in Conns : resp[k] # "none" =>
           req[k] # NoReq /\ resp[k] = Match(mux, req[k])

AInv == RInv /\ Answered

(* The registered routes answer every path as main intends: an API path  *)
(* is registered exactly, and any other path has no exact pattern and     *)
(* the root "/" as its only subtree pattern, because the API patterns do  *)
(* not end in a slash and "/" is a prefix of every other path.            *)
LEMMA MatchRoutes ==
    ASSUME NEW p \in Paths
    PROVE  Match(Routes, p) = Intended(p)
<1> DEFINE Apis == {Exact(n) : n \in DOMAIN API}
<1>1. p \in [segs : Seq(STRING), slash : BOOLEAN]
    BY PathsAssumption
<1>2. /\ DOMAIN API = {"check", "schema", "generate_config",
                       "analyze_config_file", "download"}
      /\ DOMAIN Routes = {Root} \cup Apis
      /\ Routes[Root] = "FileServer"
      /\ \A n \in DOMAIN API : Routes[Exact(n)] = API[n]
    BY DEF Routes, API, Root, Exact
<1>3. CASE ~p.slash /\ Len(p.segs) = 1 /\ p.segs[1] \in DOMAIN API
    <2>1. p = Exact(p.segs[1])
        BY <1>1, <1>3 DEF Exact
    <2>2. p \in DOMAIN Routes /\ Routes[p] = API[p.segs[1]]
        BY <1>2, <1>3, <2>1
    <2>3. QED
        BY <1>3, <2>2 DEF Match, Intended
<1>4. CASE ~(~p.slash /\ Len(p.segs) = 1 /\ p.segs[1] \in DOMAIN API)
    <2>1. p \notin Apis
        BY <1>4 DEF Exact
    <2>2. CASE p = Root
        BY <1>2, <1>4, <2>2 DEF Match, Intended
    <2>3. CASE p # Root
        <3>1. p \notin DOMAIN Routes
            BY <1>2, <2>1, <2>3
        <3>2. p.segs # <<>>
            BY <1>1, <2>3, PathsAssumption DEF Root
        <3>3. SubtreeOf(Root, p)
            BY <1>1, <3>2 DEF SubtreeOf, Root, IsStrictPrefix, IsPrefix
        <3>4. \A q \in Apis : ~SubtreeOf(q, p)
            BY DEF Exact, SubtreeOf
        <3>5. {q \in DOMAIN Routes : SubtreeOf(q, p)} = {Root}
            BY <1>2, <3>3, <3>4
        <3>6. Match(Routes, p) = Routes[Root]
            BY <3>1, <3>5 DEF Match
        <3>7. QED
            BY <1>2, <1>4, <3>6 DEF Intended
    <2>4. QED
        BY <2>2, <2>3
<1>5. QED
    BY <1>3, <1>4

LEMMA NextAInv == AInv /\ [Next]_vars => AInv'
<1> SUFFICES ASSUME AInv, [Next]_vars PROVE AInv'
    OBVIOUS
<1>1. RInv'
    BY NextRInv DEF AInv
<1> SUFFICES Answered'
    BY <1>1 DEF AInv
<1> USE DEF AInv, Answered
<1>2. CASE Parse \/ Validate \/ OpenStatik \/ Register \/ Listen
    BY <1>2 DEF Parse, Validate, OpenStatik, Register, Listen
<1>3. CASE ServeFail
    BY <1>3 DEF ServeFail
<1>4. ASSUME NEW k \in Conns, NEW p \in Paths, Accept(k, p) PROVE Answered'
    BY <1>4 DEF Accept
<1>5. ASSUME NEW k \in Conns, Respond(k) PROVE Answered'
    BY <1>5 DEF Respond
<1>6. ASSUME NEW k \in Conns, Finish(k) PROVE Answered'
    BY <1>6 DEF Finish
<1>7. CASE UNCHANGED vars
    BY <1>7 DEF vars
<1>8. QED
    BY <1>2, <1>3, <1>4, <1>5, <1>6, <1>7 DEF Next

(* Every request dm-portal answers reaches the handler main meant for it: *)
(* the five API routes their handler, every other path the static file   *)
(* server, never a 404 from the mux, for any connections and paths the    *)
(* server hands the mux.                                                  *)
THEOREM RoutedAsIntendedHolds == Spec => []RoutedAsIntended
<1>1. Init => AInv
    BY InitRInv DEF Init, AInv, Answered
<1>2. AInv => RoutedAsIntended
    <2> SUFFICES ASSUME AInv, NEW k \in Conns, resp[k] # "none"
                 PROVE  resp[k] = Intended(req[k])
        BY DEF RoutedAsIntended
    <2>1. pc = "serving" /\ req[k] # NoReq /\ resp[k] = Match(mux, req[k])
        BY DEF AInv, Answered
    <2>2. mux = Routes /\ req[k] \in Paths
        BY <2>1 DEF AInv, RInv, Ready, ConnType
    <2>3. QED
        BY <2>1, <2>2, MatchRoutes
<1>3. QED
    BY <1>1, <1>2, NextAInv, PTL DEF Spec

=============================================================================
