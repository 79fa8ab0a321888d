------------------------------ MODULE MCServer ------------------------------
(* Two members of a queue group, and what Errors and Options compute. *)
EXTENDS Server, TLC

INSTANCE Options WITH Nil <- None

\* An error a requester is told to retry on.
CodedErrors == {ServiceError("unavailable")}
\* What Retry makes of the first when it gives up (middleware.go 197).
RetriedErrors == {Wrapped(ServiceError("unavailable"))}

\* One server with a service of each kind that is run again, and two members
\* of a queue group that are run once.
Again(s, t) == [services |-> 2, runs |-> s :> 2 @@ t :> 0,
                subject |-> "first" :> 1 @@ "second" :> 2]
Shared(s, t) == [services |-> 1, runs |-> s :> 1 @@ t :> 1,
                 subject |-> "first" :> 1 @@ "second" :> 0]
BothDeployments ==
  LET s == CHOOSE s \in Servers : TRUE
      t == CHOOSE t \in Servers : t # s
  IN  {Again(s, t), Shared(s, t)}

\* Errors as they come about: a call's status, a handler's ServiceError or an
\* error of another package, wrapped by the SDK or with %w up to twice.
Origins == {Status(c) : c \in StatusCodes}
           \cup {ServiceError(c) : c \in ServiceCodes} \cup {Plain}
Outer(errs) == errs \cup {Wrapped(e) : e \in errs} \cup {wrapError(e) : e \in errs}
Chains == Outer(Outer(Origins))

\* A failed call can be told by its code however often it is wrapped, and
\* Retry decides by that code; the ServiceError goes before everything else.
ASSUME CodesSurviveWrapping ==
  /\ \A e \in Origins : Is(wrapError(e), codeFromGRPC(
        IF HasKind(e, "status") THEN CodeAs(e, "status") ELSE "other"))
  /\ \A e \in Chains :
       /\ \A c \in ErrorCodes : Is(e, c) => Is(wrapError(e), c)
       /\ isRetryable(Wrapped(e)) = isRetryable(e)
       /\ Is(e, "unavailable") /\ ~HasKind(e, "service") => isRetryable(e)
       /\ formatError(e) # "" => formatError(e) = CodeAs(e, "service")

\* A StreamError says that there is no sense in a retry, whatever the code was.
ASSUME StreamErrorsAreNotRetried == ~isRetryable(StreamError(Plain))

-----------------------------------------------------------------------------
(* Options, in every sequence of a few *)

\* The files and configurations are named by what they are; None is given by a
\* caller that has none.
TLSOptions == {Option("WithTLS", f) : f \in {"ca.pem", "other.pem", None}}
              \cup {Option("WithTLSConfig", c) : c \in {"config", None}}
              \cup {Option("WithSystemTLS", None), Option("WithInsecure", None)}

\* What is meant: the last option says whether there is TLS.  If so, a
\* configuration goes before a file and a file before the system's pool; the
\* system's pool sets aside what was given before it.
MeantTransport(opts) ==
  LET last(name) == SelectLastInSeq(opts, LAMBDA opt : opt.name = name)
      system == last("WithSystemTLS")
      given(name) == IF last(name) > system THEN opts[last(name)].arg ELSE None
  IN  IF opts = <<>> \/ Last(opts).name = "WithInsecure" THEN <<"insecure">>
      ELSE IF given("WithTLSConfig") # None THEN <<"config", given("WithTLSConfig")>>
      ELSE IF given("WithTLS") # None THEN <<"file", given("WithTLS")>>
      ELSE IF system > 0 THEN <<"system">> ELSE <<"insecure">>

\* An agent connects as its options mean, and the agent of a server, which is
\* told only the outcome of the server's options, as theirs do.
ASSUME TransportIsMeant ==
  \A opts \in BoundedSeq(TLSOptions, 4) :
    /\ buildTransportCredentials(NewAgent(opts)) = MeantTransport(opts)
    /\ buildTransportCredentials(NewAgent(AgentOptions(NewServer(opts))))
         = MeantTransport(opts)

CardOptions == {Option("WithAgentCard", [name |-> "a", capabilities |-> c]) :
                  c \in {<<>>, <<"chat">>}}
               \cup {Option("WithCapabilities", <<"analysis">>)}
BackoffOptions ==
  {Option("WithAutoReconnect", [maxRetries |-> r, baseBackoff |-> d]) :
     r \in {0, 3}, d \in {0, 5}}
  \cup {Option("WithMaxBackoff", d) : d \in {0, 60}}
OtherOptions == {Option("WithHeartbeatInterval", 10),
                 Option("WithRequestTimeout", 10),
                 Option("WithConnectionCallback", "callback"),
                 Option("WithLogger", None), Option("WithLogger", "slog")}

\* Whatever is given, there is a logger and the backoff is one that Backoff
\* assumes; the capabilities are those of the last option that has some, even
\* if it is a card without any.
ASSUME OptionsAreUsable ==
  \A opts \in BoundedSeq(CardOptions \cup BackoffOptions \cup OtherOptions, 3) :
    LET o == NewAgent(opts)
        card == SelectLastInSeq(opts, LAMBDA opt :
                  opt.name \in {"WithAgentCard", "WithCapabilities"})
    IN  /\ o.logger # None
        /\ o.baseBackoff > 0 /\ o.maxBackoff > 0
        /\ o.maxRetries > 0 => o.autoReconnect
        /\ o.agentCard.capabilities =
             IF card = 0 THEN <<>>
             ELSE IF opts[card].name = "WithCapabilities" THEN opts[card].arg
             ELSE opts[card].arg.capabilities

NameOptions == {Option("WithAgentName", "mine"), Option("WithAgentName", "yours"),
                Option("WithAgentDescription", "text"), Option("WithVersion", "2")}

\* A name that is given goes before the subject, wherever it is given.
ASSUME GivenNameIsTaken ==
  \A opts \in BoundedSeq(NameOptions, 3) :
    LET given == SelectSeq(opts, LAMBDA opt : opt.name = "WithAgentName")
    IN  NewServer(ensureAgentName(opts, "subject")).agentName =
          IF given = <<>> THEN "subject" ELSE Last(given).arg

ServiceOptions == {Option("WithQueueGroup", "g"), Option("WithName", "n"),
                   Option("WithServiceMiddleware", <<"s1">>),
                   Option("WithServiceMiddleware", <<"s2", "s3">>)}

\* Around a handler the server's middleware comes before the service's, each
\* in the order it was given.
ASSUME MiddlewareInOrder ==
  \A opts \in BoundedSeq(ServiceOptions, 3), n \in 0..2 :
    LET middleware == NewServer([k \in 1..n |->
                        Option("WithMiddleware", <<k, "global">>)]).middleware
        chain == BuildHandler(NewService("v", opts), middleware)
        given == SelectSeq(opts, LAMBDA opt : opt.name = "WithServiceMiddleware")
    IN  chain = middleware
                \o FlattenSeq([k \in DOMAIN given |-> given[k].arg])
                \o <<"handler">>
=============================================================================
