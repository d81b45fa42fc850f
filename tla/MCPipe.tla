------------------------------- MODULE MCPipe -------------------------------
(***************************************************************************)
(* Pipe for TLC.  Three pipes are checked at once: a ring of two places    *)
(* with calls that time out, a pipe of size 0 with every timeout, and a    *)
(* pipe of size 1 with all members.                                        *)
(***************************************************************************)
EXTENDS Pipe, TLC

MCUses ==
    { [size |-> 2, timeouts |-> {"none", "some"}, members |-> {"empty"}],
      [size |-> 0, timeouts |-> {"none", "zero", "some"},
       members |-> {"enabled", "enqueue", "dequeue"}],
      [size |-> 1, timeouts |-> {"none"},
       members |-> {"wait", "enabled", "empty", "close"}] }

\* The uses of the configurations that show where the code leaves its contract.
Drained  == {[size |-> 1, timeouts |-> {"none"}, members |-> {"wait", "enabled", "dequeue"}]}
Blocked  == {[size |-> 1, timeouts |-> {"none"}, members |-> {"wait"}]}
HandOver == {[size |-> 0, timeouts |-> {"none", "zero", "some"}, members |-> {}]}

\* Threads of a kind and items are interchangeable.
Symmetry ==
    Permutations(Producers) \cup Permutations(Consumers) \cup Permutations(Watchers)
       \cup Permutations(Items)

=============================================================================
