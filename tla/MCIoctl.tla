------------------------------ MODULE MCIoctl -------------------------------
(***************************************************************************)
(* IoctlDispatch for TLC: the requests of the header file, the same in     *)
(* another direction and with the sizes of other driver versions, and      *)
(* numbers nothing has.                                                    *)
(***************************************************************************)
EXTENDS IoctlDispatch

MaliRequests == {MALI_IOCTL[n] : n \in IoctlNames}

Sizes == {0, 8, 16, 56}

Resized == {[r EXCEPT !.size = s] : r \in MaliRequests, s \in Sizes}

Unknown == {[dir |-> "w", type |-> 129, nr |-> 0, size |-> 8],
            [dir |-> "rw", type |-> 128, nr |-> 28, size |-> 24],
            [dir |-> "rw", type |-> 130, nr |-> 254, size |-> 8]}

TracedRequests ==
  MaliRequests \cup {[r EXCEPT !.dir = "w"] : r \in MaliRequests} \cup Resized
    \cup Unknown

=============================================================================
