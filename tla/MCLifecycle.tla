---------------------------- MODULE MCLifecycle ----------------------------
(* TLC instance of Lifecycle: one server with one worker, one shard.       *)
EXTENDS Lifecycle

CONSTANTS tcp, w1, s1

MCAdds == [a \in {Main, tcp, ShardManager} |->
             CASE a = Main -> <<tcp, ShardManager, SessionManager, Client>>
               [] a = tcp -> <<w1>>
               [] a = ShardManager -> <<s1>>]
=============================================================================
