----------------------------- MODULE MCManager -----------------------------
(* Manager with the handle of one VM (vm), a console (con) and a second one  *)
(* that competes for its slot (con2).  In other behaviours, with one console *)
(* only, a count is changed by a load and a store that another processor can *)
(* come between.                                                             *)
EXTENDS Manager, TLC

CONSTANTS vm, con, con2, console, conet

\* con2 stands for a process that claims the modules of two others.
ClaimsTwo == con :> {console} @@ con2 :> {console, conet}
ClaimsOne == con :> {console}

VARIABLES
    s_desc, s_ref_count, s_active, s_monitor, s_mon, s_refcount, s_listed,
    s_connected_modules, s_lock, s_mgr_lock, s_pc, s_md_cur, s_target,
    s_closing, s_close_pc, s_below, s_down, s_down_pc, s_loaded

smpVars == <<
    s_desc, s_ref_count, s_active, s_monitor, s_mon, s_refcount, s_listed,
    s_connected_modules, s_lock, s_mgr_lock, s_pc, s_md_cur, s_target,
    s_closing, s_close_pc, s_below, s_down, s_down_pc, s_loaded>>

Smp == INSTANCE Manager WITH
    AtomicCount <- FALSE, Daemons <- {con}, Claims <- ClaimsOne,
    desc <- s_desc, ref_count <- s_ref_count, active <- s_active,
    monitor <- s_monitor, mon <- s_mon, refcount <- s_refcount,
    listed <- s_listed, connected_modules <- s_connected_modules,
    lock <- s_lock, mgr_lock <- s_mgr_lock, pc <- s_pc, md_cur <- s_md_cur,
    target <- s_target, closing <- s_closing, close_pc <- s_close_pc,
    below <- s_below, down <- s_down, down_pc <- s_down_pc, loaded <- s_loaded

MCInit == Init /\ Smp!Init
MCNext ==
    \/ Smp!Init /\ Next /\ UNCHANGED smpVars
    \/ Init /\ Smp!Next /\ UNCHANGED vars
MCSpec == MCInit /\ [][MCNext]_<<vars, smpVars>> /\ CallsProgress

\* Descriptors are counted right even so (manager.c), if not monitors (monitor.c).
CountsHold == Smp!RefCountExact
=============================================================================
