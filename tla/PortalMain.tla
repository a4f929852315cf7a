------------------------------ MODULE PortalMain ------------------------------
(***************************************************************************)
(* The main function of dm-portal (src/cmd/dm-portal/main.go): parse and   *)
(* validate the configuration, open the embedded static file system,       *)
(* register the static file server on "/" and the five API handlers on     *)
(* http.DefaultServeMux, then ListenAndServe; every failure ends the       *)
(* process with os.Exit(1).  Once the server listens, connections are      *)
(* served concurrently, each request routed by the mux, until Serve        *)
(* returns an error and the process exits under the requests in flight.    *)
(*                                                                         *)
(* Data abstraction.  A configuration is "valid" or "invalid", as          *)
(* cfg.Valid judges it.  A URL path is a record of its segments and        *)
(* whether it ends in a slash: "/" is [segs |-> <<>>, slash |-> TRUE],     *)
(* "/check" is [segs |-> <<"check">>, slash |-> FALSE].  A mux pattern is  *)
(* a path of the same form.  A handler is the name of the function that    *)
(* serves the request.  Logging and printing are left out.                 *)
(***************************************************************************)
EXTENDS Naturals, Sequences, SequencesExt

CONSTANTS
    Conns,      \* concurrent client connections (model values)
    Paths,      \* request paths the clients send
    NoReq       \* a connection with no request in flight

(* net/http hands the mux a path that begins with "/": a path with no     *)
(* segment is "/" itself.                                                 *)
ASSUME PathsAssumption ==
    /\ Paths \subseteq [segs : Seq(STRING), slash : BOOLEAN]
    /\ \A p \in Paths : p.segs = <<>> => p.slash
    /\ NoReq \notin Paths

VARIABLES
    pc,         \* the step of main: "parse", "valid", "statik", "handle",
                \* "listen", "serving", or "exited" after os.Exit(1)
    cfg,        \* the parsed configuration
    mux,        \* http.DefaultServeMux: registered pattern -> handler
    req,        \* connection -> the path of its request in flight, or NoReq
    resp        \* connection -> the handler that answered it, or "none"

vars == <<pc, cfg, mux, req, resp>>

(* The routes main registers with http.HandleFunc, by their path segment. *)
API == [check |-> "Check", schema |-> "GetSchemaInfo",
        generate_config |-> "GenerateConfig",
        analyze_config_file |-> "AnalyzeConfig", download |-> "Download"]

Root == [segs |-> <<>>, slash |-> TRUE]
Exact(n) == [segs |-> <<n>>, slash |-> FALSE]
Handlers == {"FileServer", "NotFound"} \cup Range(API)

TypeOK ==
    /\ pc \in {"parse", "valid", "statik", "handle", "listen", "serving", "exited"}
    /\ cfg \in {"none", "valid", "invalid"}
    /\ mux \in [DOMAIN mux -> Handlers]
    /\ req \in [Conns -> Paths \cup {NoReq}]
    /\ resp \in [Conns -> Handlers \cup {"none"}]

Init ==
    /\ pc = "parse"
    /\ cfg = "none"
    /\ mux = <<>>
    /\ req = [k \in Conns |-> NoReq]
    /\ resp = [k \in Conns |-> "none"]

-----------------------------------------------------------------------------
(* ServeMux.match: a pattern equal to the path wins; otherwise the longest *)
(* pattern that ends in a slash and is a prefix of the path; otherwise    *)
(* the mux answers 404.                                                   *)
SubtreeOf(q, p) ==
    /\ q.slash
    /\ \/ IsStrictPrefix(q.segs, p.segs)
       \/ q.segs = p.segs /\ p.slash

Match(m, p) ==
    LET subtrees == {q \in DOMAIN m : SubtreeOf(q, p)}
    IN  IF p \in DOMAIN m THEN m[p]
        ELSE IF subtrees = {} THEN "NotFound"
        ELSE m[CHOOSE q \in subtrees :
                   \A r \in subtrees : Len(r.segs) <= Len(q.segs)]

-----------------------------------------------------------------------------
(* cfg := portal.NewConfig(); cfg.Parse(os.Args[1:]).                      *)
Parse ==
    /\ pc = "parse"
    /\ \E c \in {"valid", "invalid"} : cfg' = c
    /\ pc' = "valid"
    /\ UNCHANGED <<mux, req, resp>>

(* Bug variant: the invalid configuration is logged but main goes on.     *)
ValidateNoExit ==
    /\ pc = "valid"
    /\ pc' = "statik"
    /\ UNCHANGED <<cfg, mux, req, resp>>

(* cfg.Valid(): an invalid configuration ends the process.               *)
Validate ==
    /\ pc = "valid"
    /\ pc' = IF cfg = "valid" THEN "statik" ELSE "exited"
    /\ UNCHANGED <<cfg, mux, req, resp>>

(* fs.New(): opening the embedded static files may fail.                  *)
OpenStatik ==
    /\ pc = "statik"
    /\ pc' \in {"handle", "exited"}
    /\ UNCHANGED <<cfg, mux, req, resp>>

(* Bug variant: the API routes registered as subtrees ("/check/").        *)
RegisterSubtrees ==
    /\ pc = "handle"
    /\ mux' = [q \in {Root} \cup {[segs |-> <<n>>, slash |-> TRUE] : n \in DOMAIN API} |->
                  IF q = Root THEN "FileServer" ELSE API[q.segs[1]]]
    /\ pc' = "listen"
    /\ UNCHANGED <<cfg, req, resp>>

(* http.Handle("/", StripPrefix("/", FileServer(statikFS))), NewHandler,  *)
(* and http.HandleFunc for each API route.                               *)
Register ==
    /\ pc = "handle"
    /\ mux' = [q \in {Root} \cup {Exact(n) : n \in DOMAIN API} |->
                  IF q = Root THEN "FileServer" ELSE API[q.segs[1]]]
    /\ pc' = "listen"
    /\ UNCHANGED <<cfg, req, resp>>

(* ListenAndServe: the listen on cfg.Port fails, or the server serves.    *)
Listen ==
    /\ pc = "listen"
    /\ pc' \in {"serving", "exited"}
    /\ UNCHANGED <<cfg, mux, req, resp>>

(* Serve accepts a connection and reads a request.                        *)
Accept(k, p) ==
    /\ pc = "serving"
    /\ req[k] = NoReq
    /\ req' = [req EXCEPT ![k] = p]
    /\ UNCHANGED <<pc, cfg, mux, resp>>

(* The connection's goroutine: DefaultServeMux routes the request.        *)
Respond(k) ==
    /\ pc = "serving"
    /\ req[k] # NoReq
    /\ resp[k] = "none"
    /\ resp' = [resp EXCEPT ![k] = Match(mux, req[k])]
    /\ UNCHANGED <<pc, cfg, mux, req>>

(* The response is written and the connection is ready for another one.   *)
Finish(k) ==
    /\ pc = "serving"
    /\ resp[k] # "none"
    /\ req' = [req EXCEPT ![k] = NoReq]
    /\ resp' = [resp EXCEPT ![k] = "none"]
    /\ UNCHANGED <<pc, cfg, mux>>

(* Serve returns an error and main calls os.Exit(1): the connections and  *)
(* the requests in flight die with the process.                           *)
ServeFail ==
    /\ pc = "serving"
    /\ pc' = "exited"
    /\ req' = [k \in Conns |-> NoReq]
    /\ resp' = [k \in Conns |-> "none"]
    /\ UNCHANGED <<cfg, mux>>

Next ==
    \/ Parse \/ Validate \/ OpenStatik \/ Register \/ Listen \/ ServeFail
    \/ \E k \in Conns : \/ \E p \in Paths : Accept(k, p)
                        \/ Respond(k)
                        \/ Finish(k)

Spec == Init /\ [][Next]_vars

-----------------------------------------------------------------------------
(* A request is read only by a server that main started after a valid     *)
(* configuration, with the static files and every API route registered:   *)
(* no client reaches a half-configured portal, whichever step failed.     *)
Routes == [q \in {Root} \cup {Exact(n) : n \in DOMAIN API} |->
              IF q = Root THEN "FileServer" ELSE API[q.segs[1]]]

ServesOnlyWhenReady ==
    \A k \in Conns : req[k] # NoReq => cfg = "valid" /\ mux = Routes

(* What a reader of main expects of the routing: /check, /schema,         *)
(* /generate_config, /analyze_config_file and /download reach their API   *)
(* handler, and every other path (/, /check/, /index.html, ...) the       *)
(* static file server; the mux never answers 404.                         *)
Intended(p) ==
    IF ~p.slash /\ Len(p.segs) = 1 /\ p.segs[1] \in DOMAIN API
        THEN API[p.segs[1]]
        ELSE "FileServer"

RoutedAsIntended ==
    \A k \in Conns : resp[k] # "none" => resp[k] = Intended(req[k])

=============================================================================
