------------------------------- MODULE MCPush -------------------------------
(* The instances of Push: people, calls and messages are interchangeable.      *)
EXTENDS Push, TLC

Symmetric == Permutations(Person) \cup Permutations(Flow) \cup Permutations(Message)

PushMixes ==
    {{"settings", "toggle", "session"}, {"toggle", "session", "lost"}, {"toggle", "session", "reload"},
     {"settings", "toggle", "browser"}, {"toggle", "deliver"}}
=============================================================================
