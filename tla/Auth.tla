-------------------------------- MODULE Auth --------------------------------
(***************************************************************************)
(* Token authentication of auth/ (jwt.go, middleware.go, grpc.go) as the   *)
(* example programs use it, and the handler chaining of middleware/.       *)
(*                                                                         *)
(* examples/auth/main.go serves HTTP with gin: POST /login issues a token  *)
(* for the admin's claims; the /api group runs AuthMiddleware before its   *)
(* handlers, and /api/admin adds RequireRole("admin").  The gRPC example   *)
(* server (examples/auth/grpc/server) runs UnaryServerInterceptor and      *)
(* StreamServerInterceptor before the user service, whose handlers decide  *)
(* who may read, update, list and delete users; its client mints a token   *)
(* itself and attaches it with UnaryClientInterceptor.                     *)
(*                                                                         *)
(* A token is the record of its signed claims.  Whoever holds the secret   *)
(* can sign any Claims with GenerateToken; other clients present forged    *)
(* tokens (not signed with the secret), tokens issued earlier, or headers  *)
(* that do not parse.  strings.Split of the header is modelled by what it  *)
(* yields: a token after "Bearer ", or an invalid header.  Time is in      *)
(* whole seconds: time.Now() during second s lies in [s, s + 1), and an    *)
(* expiry is a whole second (jwt.NewNumericDate truncates).                *)
(* Requests do not share state besides the clock and the tokens, so each  *)
(* is one step; the ListUsers stream, which outlives its check, is several.*)
(***************************************************************************)
EXTENDS Naturals, Sequences

CONSTANTS
    Users,       \* user ids (strings); "1" is the examples' admin
    Claims,      \* claims tokens are signed for: a set of [uid, role]
    Expiration,  \* NewJWTAuthenticator's expiration, in seconds
    StreamLen,   \* users ListUsers sends on its stream (5 in the example)
    MaxTime      \* model bound: last second of the clock

Roles == {c.role : c \in Claims} \cup {"admin"}

\* The claims of examples/auth: UserID "1", role "admin".
AdminClaims == [uid |-> "1", role |-> "admin"]

ASSUME AdminClaims \in Claims /\ Expiration \in Nat \ {0} /\ StreamLen \in Nat \ {0}

VARIABLES
    now,     \* the clock, in seconds
    issued,  \* every token GenerateToken has signed
    stream,  \* the ListUsers stream being served, or NoStream
    last     \* the outcome of the latest request (or stream message)

vars == <<now, issued, stream, last>>

NoClaims == [uid |-> "none", role |-> "none"]
NoStream == [active |-> FALSE]

\* Tokens presented by clients that do not hold the secret.
Forged == [uid : Users, role : Roles, exp : {MaxTime + Expiration}, signed : {FALSE}]

NoToken == [uid |-> "none", role |-> "none", exp |-> 0, signed |-> FALSE]

\* What an Authorization header (or "authorization" metadata) can be: absent,
\* not of the form "Bearer <token>", or a bearer token.
Headers ==
    {[kind |-> k, tok |-> NoToken] : k \in {"missing", "malformed"}}
      \cup {[kind |-> "bearer", tok |-> t] : t \in issued \cup Forged}

-----------------------------------------------------------------------------
(* Tokens                                                                  *)

\* GenerateToken(claims) at now: ExpiresAt = now + expiration, signed HS256.
GenerateToken(c) == [uid |-> c.uid, role |-> c.role, exp |-> now + Expiration, signed |-> TRUE]

\* Mutant: only the explicit expiry check of ValidateToken, as with a parse
\* that skips the library's claim validation.
ValidateTokenOwnCheck(t) ==
    IF ~t.signed THEN [err |-> "ErrInvalidToken", claims |-> NoClaims]
    ELSE IF t.exp < now THEN [err |-> "ErrExpiredToken", claims |-> NoClaims]
    ELSE [err |-> "none", claims |-> [uid |-> t.uid, role |-> t.role]]

\* ValidateToken: jwt.ParseWithClaims rejects a bad signature and a token
\* whose exp is not after time.Now(); then ExpiresAt.Unix() < Now().Unix().
ValidateToken(t) ==
    IF ~t.signed \/ ~(now < t.exp) THEN [err |-> "ErrInvalidToken", claims |-> NoClaims]
    ELSE IF t.exp < now THEN [err |-> "ErrExpiredToken", claims |-> NoClaims]
    ELSE [err |-> "none", claims |-> [uid |-> t.uid, role |-> t.role]]

\* The header check shared by AuthMiddleware and authenticateRequest, then
\* ValidateToken.
Authenticate(h) ==
    CASE h.kind = "missing"   -> [err |-> "ErrMissingToken", claims |-> NoClaims]
      [] h.kind = "malformed" -> [err |-> "ErrInvalidToken", claims |-> NoClaims]
      [] OTHER           -> ValidateToken(h.tok)

-----------------------------------------------------------------------------
(* HTTP: gin runs a route's handlers in order; one that aborts ends it.    *)

\* AuthMiddleware: 401 on any error, else the claims go into the context.
AuthMiddleware(h, claims) ==
    LET a == Authenticate(h)
    IN IF a.err # "none" THEN [status |-> "401", claims |-> claims]
                         ELSE [status |-> "next", claims |-> a.claims]

\* RequireRole(role): 401 without claims, 403 for another role.
RequireRole(role, claims) ==
    CASE claims = NoClaims   -> [status |-> "401", claims |-> claims]
      [] claims.role # role  -> [status |-> "403", claims |-> claims]
      [] OTHER               -> [status |-> "next", claims |-> claims]

\* The example's handlers.  GET /api/user asserts that the claims are there;
\* without them the assertion panics and gin.Default's Recovery answers 500.
Handler(name, claims) ==
    IF name = "user" /\ claims = NoClaims THEN "500" ELSE "200"

\* Mutant: api.Use(AuthMiddleware) placed after api.GET("/user").
RoutesUseAfterGet ==
    [user       |-> <<"user">>,
     createUser |-> <<"AuthMiddleware", "RequireRole", "createUser">>,
     deleteUser |-> <<"AuthMiddleware", "RequireRole", "deleteUser">>]

\* The routes of examples/auth/main.go with the handlers gin chains for them.
Routes ==
    [user       |-> <<"AuthMiddleware", "user">>,
     createUser |-> <<"AuthMiddleware", "RequireRole", "createUser">>,
     deleteUser |-> <<"AuthMiddleware", "RequireRole", "deleteUser">>]

\* c.Next() through a chain: the status of the handler that ends it.
RECURSIVE RunChain(_, _, _)
RunChain(chain, h, claims) ==
    LET s == Head(chain)
        r == CASE s = "AuthMiddleware" -> AuthMiddleware(h, claims)
               [] s = "RequireRole"    -> RequireRole("admin", claims)
               [] OTHER                -> [status |-> Handler(s, claims), claims |-> claims]
    IN IF r.status = "next" THEN RunChain(Tail(chain), h, r.claims)
                            ELSE [status |-> r.status, claims |-> r.claims]

-----------------------------------------------------------------------------
(* gRPC: the interceptor authenticates, then the user service decides.     *)

\* Mutant: UpdateUser without the ownership check that GetUser makes.
UserServiceNoUpdateCheck(op, target, claims) ==
    CASE op = "GetUser" /\ target # claims.uid /\ claims.role # "admin" -> "PermissionDenied"
      [] op \in {"DeleteUser", "ListUsers"} /\ claims.role # "admin" -> "PermissionDenied"
      [] OTHER -> "OK"

\* The handlers of the example's userService: GetUser and UpdateUser for
\* oneself or by an admin, DeleteUser and ListUsers by an admin.
UserService(op, target, claims) ==
    CASE op \in {"GetUser", "UpdateUser"} /\ target # claims.uid /\ claims.role # "admin"
            -> "PermissionDenied"
      [] op \in {"DeleteUser", "ListUsers"} /\ claims.role # "admin" -> "PermissionDenied"
      [] OTHER -> "OK"

-----------------------------------------------------------------------------
(* Steps                                                                   *)

Outcome(api, op, target, h, status, claims) ==
    [api |-> api, op |-> op, target |-> target, tok |-> h.tok,
     status |-> status, claims |-> claims, checked |-> now, at |-> now]

Init ==
    /\ now = 0
    /\ issued = {}
    /\ stream = NoStream
    /\ last = [api |-> "none"]

Tick ==
    /\ now < MaxTime
    /\ now' = now + 1
    /\ UNCHANGED <<issued, stream, last>>

\* POST /login: a body that does not bind gets 400, credentials other than
\* admin/123456 get 401, the admin's get a token for AdminClaims.
LoginStatus == [unbound |-> "400", wrong |-> "401", admin |-> "200"]

Login ==
    \E body \in DOMAIN LoginStatus :
       /\ issued' = IF body = "admin" THEN issued \cup {GenerateToken(AdminClaims)} ELSE issued
       /\ last' = Outcome("http", "login", "none", [kind |-> "missing", tok |-> NoToken],
                          LoginStatus[body], NoClaims)
       /\ UNCHANGED <<now, stream>>

\* Another holder of the secret signs claims (the gRPC client example
\* mints its own token this way).
Mint ==
    \E c \in Claims :
       /\ issued' = issued \cup {GenerateToken(c)}
       /\ UNCHANGED <<now, stream, last>>

\* An HTTP request to one of the protected routes.
HttpRequest ==
    \E route \in DOMAIN Routes, h \in Headers :
       LET r == RunChain(Routes[route], h, NoClaims)
       IN /\ last' = Outcome("http", route, "none", h, r.status, r.claims)
          /\ UNCHANGED <<now, issued, stream>>

\* A unary RPC: UnaryServerInterceptor, then the handler with the claims
\* that NewContext put into the context.
GrpcCall ==
    \E op \in {"GetUser", "UpdateUser", "DeleteUser"}, target \in Users, h \in Headers :
       LET a == Authenticate(h)
       IN /\ last' = Outcome("grpc", op, target, h,
                             IF a.err # "none" THEN "Unauthenticated"
                                               ELSE UserService(op, target, a.claims),
                             a.claims)
          /\ UNCHANGED <<now, issued, stream>>

\* ListUsers: StreamServerInterceptor authenticates once, at the start of
\* the stream; an admin's stream then sends StreamLen users.
StreamStart ==
    /\ ~stream.active
    /\ \E h \in Headers :
          LET a == Authenticate(h)
              s == IF a.err # "none" THEN "Unauthenticated"
                                     ELSE UserService("ListUsers", "none", a.claims)
          IN /\ last' = Outcome("grpc", "ListUsers", "none", h, s, a.claims)
             /\ stream' = IF s = "OK"
                          THEN [active |-> TRUE, tok |-> h.tok, claims |-> a.claims,
                                checked |-> now, sent |-> 0]
                          ELSE stream
    /\ UNCHANGED <<now, issued>>

\* Mutant: the send loop runs one time too many (i <= n).
StreamSendOnceMore ==
    /\ stream.active
    /\ last' = [api |-> "grpc", op |-> "ListUsers", target |-> "none", tok |-> stream.tok,
                status |-> "OK", claims |-> stream.claims,
                checked |-> stream.checked, at |-> now]
    /\ stream' = IF stream.sent = StreamLen THEN NoStream
                 ELSE [stream EXCEPT !.sent = @ + 1]
    /\ UNCHANGED <<now, issued>>

\* stream.Send of the next user (the handler sleeps 100 ms between sends);
\* after the last one the handler returns nil.
StreamSend ==
    /\ stream.active
    /\ last' = [api |-> "grpc", op |-> "ListUsers", target |-> "none", tok |-> stream.tok,
                status |-> "OK", claims |-> stream.claims,
                checked |-> stream.checked, at |-> now]
    /\ stream' = IF stream.sent + 1 = StreamLen THEN NoStream
                 ELSE [stream EXCEPT !.sent = @ + 1]
    /\ UNCHANGED <<now, issued>>

Next == Tick \/ Login \/ Mint \/ HttpRequest \/ GrpcCall \/ StreamStart \/ StreamSend

Spec == Init /\ [][Next]_vars

-----------------------------------------------------------------------------
(* middleware/: handler chaining, a pure function of its arguments.        *)

\* Chain(middlewares...)(h): for i from len-1 down to 0, next =
\* middlewares[i](next).  A handler is represented by the order in which a
\* call enters its stages.
RECURSIVE Wrap(_, _, _)
Wrap(ms, i, next) == IF i = 0 THEN next ELSE Wrap(ms, i - 1, <<ms[i]>> \o next)
Chain(ms, h) == Wrap(ms, Len(ms), <<h>>)

\* Recovery: a panic becomes recoverError(r), which is r for an error
\* value and nil for anything else; the named result resp stays nil.
RecoverError(r) == IF r = "error" THEN "error" ELSE "nil"

Recovery(outcome) ==
    CASE outcome = "panic-error"  -> [resp |-> "nil", err |-> RecoverError("error")]
      [] outcome = "panic-string" -> [resp |-> "nil", err |-> RecoverError("string")]
      [] OTHER                    -> [resp |-> "resp", err |-> "nil"]

-----------------------------------------------------------------------------
(***************************************************************************)
(* Properties                                                              *)
(***************************************************************************)

Statuses == {"200", "400", "401", "403", "500", "OK", "Unauthenticated", "PermissionDenied"}

TypeOK ==
    /\ now \in 0..MaxTime
    /\ issued \subseteq [uid : Users, role : Roles, exp : Nat, signed : {TRUE}]
    /\ stream = NoStream \/ stream.sent \in 0..StreamLen - 1
    /\ last.api = "none" \/ last.status \in Statuses

Served == last.api # "none" /\ last.status \in {"200", "OK"} /\ last.op # "login"

(* Every request a protected handler serves, HTTP or gRPC, presented a     *)
(* token that GenerateToken signed earlier and that had not expired when   *)
(* it was checked: forged tokens, tokens past their expiry second and      *)
(* unparsable headers never reach a handler.                               *)
ServedOnValidToken ==
    Served => /\ last.tok \in issued
              /\ last.checked < last.tok.exp

(* Only admins reach the admin handlers (POST and DELETE /api/admin/users, *)
(* DeleteUser, ListUsers), and GetUser and UpdateUser are served for the   *)
(* caller's own id or to an admin: the role comes from the token that was  *)
(* checked, through the gin context or the gRPC context.                   *)
RoleEnforced ==
    Served =>
       /\ last.op \in {"createUser", "deleteUser", "DeleteUser", "ListUsers"}
             => last.claims.role = "admin"
       /\ last.op \in {"GetUser", "UpdateUser"}
             => last.target = last.claims.uid \/ last.claims.role = "admin"

(* No request makes a handler panic: GET /api/user asserts the claims that  *)
(* AuthMiddleware stored, which holds only if the middleware is chained     *)
(* before the handler on every route of the group.                          *)
NoHandlerPanic ==
    last.api # "none" => last.status # "500"

(* A message of a ListUsers stream is sent only while the token that       *)
(* opened the stream is unexpired.                                          *)
StreamWithinToken ==
    (Served /\ last.op = "ListUsers") => last.at < last.tok.exp

(* Recovery turns every panic of the handler into an error.                *)
RecoveredPanicIsError ==
    \A o \in {"panic-error", "panic-string"} : Recovery(o).err # "nil"

=============================================================================
