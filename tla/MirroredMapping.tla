-------------------------- MODULE MirroredMapping ---------------------------
(***************************************************************************)
(* mirrored_memory_mapping: threads construct and destroy the mirrored     *)
(* memory of a ring while the application maps and unmaps memory of its    *)
(* own.  The address space is a row of regions, each as long as a ring.    *)
(* What a region maps is <<owner, object>>; munmap removes whatever is     *)
(* mapped in its range, whoever mapped it.                                 *)
(***************************************************************************)
EXTENDS Integers, FiniteSets

CONSTANTS Threads, App, None,
          Regions,     \* bound: number of regions
          MaxRings     \* bound: rings each thread constructs

ASSUME MappingAssumption ==
  /\ App \notin Threads /\ Regions \in Nat \ {0, 1} /\ MaxRings \in Nat
  /\ None \notin (Threads \cup {App}) \X {"private", "shared", "own"}

VARIABLES map,    \* what each region maps, or None
          mpc,    \* where each thread is
          base,   \* the address of a thread's mapping: reserve.get(), m_.get()
          rings,  \* rings constructed so far
          held,   \* regions the application has mapped
          twice   \* history: a failing constructor has unmapped its mirror twice

mapVars == <<map, mpc, base, rings, held, twice>>

Space == 0..(Regions - 1)
Unmapped(r) == r \in Space /\ map[r] = None

MapInit ==
  /\ map = [r \in Space |-> None]
  /\ mpc = [t \in Threads |-> "idle"] /\ base = [t \in Threads |-> 0]
  /\ rings = [t \in Threads |-> 0] /\ held = {} /\ twice = FALSE

MapAt(R, what) == map' = [r \in Space |-> IF r \in R THEN what ELSE map[r]]
munmap(R) == MapAt(R, None)
Goto(t, l) == mpc' = [mpc EXCEPT ![t] = l]
LowerHalf(t) == base[t]
UpperHalf(t) == base[t] + 1

-----------------------------------------------------------------------------
\* The constructor.  A failing call throws, and what has been constructed is
\* destroyed in reverse order.

Reserved(r) == {r, r + 1}

reserve(t) ==
  /\ mpc[t] = "idle" /\ rings[t] < MaxRings
  /\ rings' = [rings EXCEPT ![t] = @ + 1]
  /\ \/ \E r \in Space :
          /\ \A x \in Reserved(r) : Unmapped(x)
          /\ MapAt(Reserved(r), <<t, "private">>)
          /\ base' = [base EXCEPT ![t] = r]
          /\ Goto(t, "mirror")
     \/ UNCHANGED <<map, mpc, base>>
  /\ UNCHANGED <<held, twice>>

mirror(t) ==
  /\ mpc[t] = "mirror"
  /\ \/ MapAt({UpperHalf(t)}, <<t, "shared">>) /\ Goto(t, "final")
     \/ Goto(t, "~reserve") /\ map' = map
  /\ UNCHANGED <<base, rings, held, twice>>

MutFinalObject(t) == <<t, "private">>
FinalObject(t) == map[UpperHalf(t)]

\* mremap of the mirror, or mmap of the same file, over the first half.
final(t) ==
  /\ mpc[t] = "final"
  /\ \/ MapAt({LowerHalf(t)}, FinalObject(t)) /\ Goto(t, "ready")
     \/ Goto(t, "~mirror") /\ map' = map
  /\ UNCHANGED <<base, rings, held, twice>>

destroy_mirror(t) ==
  /\ mpc[t] = "~mirror"
  /\ munmap({UpperHalf(t)}) /\ Goto(t, "~reserve")
  /\ twice' = TRUE
  /\ UNCHANGED <<base, rings, held>>

destroy_reserve(t) ==
  /\ mpc[t] = "~reserve"
  /\ munmap({LowerHalf(t), UpperHalf(t)}) /\ Goto(t, "idle")
  /\ UNCHANGED <<base, rings, held, twice>>

-----------------------------------------------------------------------------
\* The destructor: the mirror, then the member m_.

MutMirrorRange(t) == {}
MirrorRange(t) == {UpperHalf(t)}

destroy_mapping(t) ==
  /\ mpc[t] = "ready"
  /\ munmap(MirrorRange(t)) /\ Goto(t, "~m_")
  /\ UNCHANGED <<base, rings, held, twice>>

MutMemberRange(t) == {LowerHalf(t), UpperHalf(t)}
MemberRange(t) == {LowerHalf(t)}

destroy_member(t) ==
  /\ mpc[t] = "~m_"
  /\ munmap(MemberRange(t)) /\ Goto(t, "idle")
  /\ UNCHANGED <<base, rings, held, twice>>

-----------------------------------------------------------------------------
\* The application's own mappings.

app_map ==
  \E r \in Space : /\ Unmapped(r) /\ MapAt({r}, <<App, "own">>)
                   /\ held' = held \cup {r}
                   /\ UNCHANGED <<mpc, base, rings, twice>>

app_unmap ==
  \E r \in held : /\ munmap({r}) /\ held' = held \ {r}
                  /\ UNCHANGED <<mpc, base, rings, twice>>

MapNext ==
  \/ \E t \in Threads : \/ reserve(t) \/ mirror(t) \/ final(t)
                        \/ destroy_mirror(t) \/ destroy_reserve(t)
                        \/ destroy_mapping(t) \/ destroy_member(t)
  \/ app_map \/ app_unmap

MapSpec == MapInit /\ [][MapNext]_mapVars

-----------------------------------------------------------------------------
(* Properties *)

\* Nobody loses memory to others: as long as a ring exists both its halves map
\* the same shared memory, which is its own, and what the application has mapped
\* stays mapped, whatever rings are constructed and destroyed meanwhile, unless a
\* constructor failed in its last step (which unmaps the mirror twice).
OwnersKeepMemory ==
  ~twice =>
    /\ \A t \in Threads : mpc[t] = "ready" =>
         map[LowerHalf(t)] = <<t, "shared">> /\ map[UpperHalf(t)] = <<t, "shared">>
    /\ \A r \in held : map[r] = <<App, "own">>

\* Once no ring is being constructed or used, the rings have left nothing mapped.
NothingLeaked ==
  (\A t \in Threads : mpc[t] = "idle") => \A r \in Space \ held : map[r] = None
=============================================================================
