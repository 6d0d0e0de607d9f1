---------------------------- MODULE PageAllocator ----------------------------
(***************************************************************************)
(* What src/src/storage/disk_manager.hpp promises of page allocation: every *)
(* page of the file has one owner at a time.  A page is handed out only     *)
(* while it is free or while the file does not hold it yet, and a failure   *)
(* or a crash costs at most the page it was working on.                     *)
(***************************************************************************)

EXTENDS Integers

CONSTANT
    Pages  \* the page ids AllocatePage may return

VARIABLES
    status,  \* status[p]: who holds page p
    result   \* the result of the last completed call

avars == <<status, result>>

\* "unborn": past the end of the file; "free": on the freelist; "owned": held by
\* a caller; "lost": in the file, but on no list and with no owner.
Status == {"unborn", "free", "owned", "lost"}

NoResult == [op |-> "none", page |-> -1, st |-> "none"]

AInit ==
    /\ status = [p \in Pages |-> "unborn"]
    /\ result = NoResult

\* p leaves the freelist, or joins the file, for an owner.
Take(p) ==
    /\ status[p] \in {"unborn", "free"}
    /\ status' = [status EXCEPT ![p] = "owned"]

\* p is taken from its owner, its header stamped FREE.
Release(p) ==
    /\ status[p] = "owned"
    /\ status' = [status EXCEPT ![p] = "lost"]

\* A released page joins the freelist.
List(p) ==
    /\ status[p] = "lost"
    /\ status' = [status EXCEPT ![p] = "free"]

\* AllocatePage returns p.
Allocated(p) ==
    /\ Take(p)
    /\ result' = [op |-> "allocate", page |-> p, st |-> "OK"]

\* DeallocatePage has taken p from its owner but has not listed it yet.
Released(p) ==
    /\ Release(p)
    /\ result' = result

\* DeallocatePage(p) returns with p on the freelist.
Freed(p) ==
    /\ List(p)
    /\ result' = [op |-> "deallocate", page |-> p, st |-> "OK"]

\* A crash leaks pages nobody owns: at most the page that was being taken off
\* the freelist and the page the file was being extended by.
Leaked(S) ==
    /\ S # {}
    /\ \A p \in S : status[p] \in {"unborn", "free"}
    /\ \A p, q \in S : status[p] = status[q] => p = q
    /\ status' = [p \in Pages |-> IF p \in S THEN "lost" ELSE status[p]]
    /\ result' = NoResult

\* Everything else: a call begins, fails, or touches no page's ownership.
Other ==
    /\ status' = status
    /\ result' # result
    /\ result'.op = "allocate" => result'.st # "OK"

ANext ==
    \/ \E p \in Pages : Allocated(p) \/ Released(p) \/ Freed(p)
    \/ \E S \in SUBSET Pages : Leaked(S)
    \/ Other

ASpec == AInit /\ [][ANext]_avars

=============================================================================
