----------------------------- MODULE MCAppServer ----------------------------
(* A small instance of AppServer for TLC. *)
EXTENDS AppServer, TLC

CONSTANTS a, b, c, x, y, z, \* provider entries
          k, l,             \* keys
          m                 \* a model

(***************************************************************************)
(* a and b are manifests of key k for two endpoints, c is one of key l for *)
(* the endpoint of a, x is forged, y names an internal address and z no    *)
(* endpoint.  The hosted directory d lists y and the rival c, the file g   *)
(* moves k to its other endpoint before it lists c, and f is not a safe    *)
(* URL.                                                                    *)
(***************************************************************************)
u == [scheme |-> "https", host |-> "name", id |-> 1]
v == [scheme |-> "http", host |-> "public address", id |-> 2]
d == [scheme |-> "https", host |-> "name", id |-> 3]
f == [scheme |-> "http", host |-> "blocked name", id |-> 4]
g == [scheme |-> "file", host |-> "none", id |-> 5]
internal == [scheme |-> "http", host |-> "internal address", id |-> 6]

MCEntries == {a, b, c, x, y, z}
MCKeyOf == (a :> k) @@ (b :> k) @@ (c :> l) @@ (x :> l) @@ (y :> l) @@ (z :> k)
MCUriOf == (a :> u) @@ (b :> v) @@ (c :> u) @@ (x :> v) @@ (y :> internal) @@ (z :> None)
MCVerified == {a, b, c, y, z}
MCDirectories == {d, f, g}
MCListing == (d :> <<y, c>>) @@ (f :> <<>>) @@ (g :> <<b, c>>)

MCCalls ==
    {[kind |-> "complete_onboarding"], [kind |-> "stop_local_use"],
     [kind |-> "add_provider", entry |-> a, base_url |-> None],
     [kind |-> "add_provider", entry |-> c, base_url |-> u],
     [kind |-> "add_provider", entry |-> b, base_url |-> u],
     [kind |-> "add_provider", entry |-> x, base_url |-> None],
     [kind |-> "add_provider", entry |-> z, base_url |-> None],
     [kind |-> "remove_provider", key |-> k],
     [kind |-> "add_directory", spec |-> d], [kind |-> "add_directory", spec |-> f],
     [kind |-> "remove_directory", spec |-> d],
     [kind |-> "start_local_use", model |-> m]}

\* The user adds a provider and a directory.
TakeoverCalls ==
    {[kind |-> "add_provider", entry |-> a, base_url |-> u], [kind |-> "add_directory", spec |-> g]}
NewInstallation == {DefaultConfig}

\* A new installation, and files with a provider, a directory and a model.
MCFiles ==
    {DefaultConfig,
     [DefaultConfig EXCEPT !.providers = <<a>>, !.directories = <<g>>],
     [DefaultConfig EXCEPT !.providers = <<c>>, !.local_use = m],
     [DefaultConfig EXCEPT !.providers = <<a>>, !.directories = <<d>>, !.onboarded = TRUE,
                           !.local_use = m]}
=============================================================================
