---------------------------- MODULE MCMiddleware ----------------------------
(* Stacks, requests and answers for TLC. *)
EXTENDS Middleware

CONSTANTS A, B  \* peers

Uri(p, path) == [peer |-> p, path |-> path]

Ask(to, method, body, retry) ==
    [to |-> to, method |-> method, body |-> body, retry |-> retry, cookies |-> {}]

Reply(what, location, sets) == [what |-> what, location |-> location, sets |-> sets]

\* Both orders of retries and redirects, a retry above a retry, a jar where it
\* sees every hop, timeouts as the outermost layer and in other places.
MixedStacks == {
    <<"redirect", "retry", "jar">>, <<"retry", "redirect", "jar">>,
    <<"smart", "retry", "redirect">>, <<"redirect", "timeout", "retry">>,
    <<"retry", "smart", "redirect", "jar">>, <<"retry", "retry">>,
    <<"smart", "timeout", "jar">>}

JarStacks == {<<"redirect", "retry", "jar">>, <<"redirect", "jar", "retry">>}

\* The jar sees the first request of a call and its last response.
JarAboveRedirects == {<<"jar", "redirect">>}

AllRequests == {
    Ask(Uri(A, "plain"), "POST", "bytes", "allowed"),
    Ask(Uri(A, "long"), "POST", "stream", "allowed"),
    Ask(Uri(A, "plain"), "POST", "bytes", "disabled"),
    Ask(Uri(A, "bare"), "POST", "bytes", "allowed"),
    Ask(Uri(NoPeer, "plain"), "GET", "empty", "allowed")}

PostToEither == {Ask(Uri(p, "plain"), "POST", "bytes", "allowed") : p \in {A, B}}

JarAnswers ==
    {Reply("ok", Invalid, sets) : sets \in SUBSET CookieNames} \cup
    {Reply("see other", Uri(B, "plain"), CookieNames),
     Reply("see other", Uri(SamePeer, "plain"), {}), Reply("failure", Invalid, {"sid"})}

AllAnswers == {
    Reply("ok", Invalid, {"sid"}), Reply("gone", Invalid, {}), Reply("failure", Invalid, {}),
    Reply("transport", Invalid, {}),
    Reply("see other", Uri(B, "plain"), {"sid"}),
    Reply("temporary redirect", Uri(B, "long"), {}),
    Reply("temporary redirect", Uri(SamePeer, "plain"), {}),
    Reply("temporary redirect", Invalid, {"sid"})}
=============================================================================
