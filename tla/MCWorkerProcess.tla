-------------------------- MODULE MCWorkerProcess --------------------------
(***************************************************************************)
(* A small instance of WorkerProcess for TLC: complete environments, and   *)
(* those in which one variable is not as it should be.                     *)
(***************************************************************************)
EXTENDS WorkerProcess

Url(scheme, host, db) == [scheme |-> scheme, host |-> host, db |-> db]

Usual ==
  [v \in Variables |->
     CASE v = "PORT" -> Empty
       [] v = "JWT_SECRET" -> 32
       [] v = "WORKER_CONCURRENCY" -> 1
       [] v = "REDIS_URL" -> Url("redis", "set", Empty)
       [] OTHER -> "set"]

Values(v) ==
  CASE v = "PORT" -> {Unset, Junk, 0, 1, 65535, 65536}
    [] v = "JWT_SECRET" -> {Unset, Empty, 31}
    [] v = "WORKER_CONCURRENCY" -> {Empty, Junk, 0, 2}
    [] v = "DATABASE_URL" -> {Unset, Empty, Junk}
    [] v = "REDIS_URL" ->
         {Unset, Empty, Junk, Url("rediss", "set", 1), Url("redis", Empty, Empty),
          Url("redis", "set", Junk), Url("http", "set", Empty)}
    [] OTHER -> {Unset, Empty}

SomeEnvironments == {Usual} \cup UNION {{[Usual EXCEPT ![v] = x] : x \in Values(v)} : v \in Variables}

=============================================================================
