------------------------------ MODULE Resident ------------------------------
(***************************************************************************)
(* The first half of vm/resident.c: the shortage test and the reference    *)
(* counts that move a page between the active state and the queues.        *)
(***************************************************************************)
EXTENDS VmState

Available(s) == s.stat.nfree + s.stat.nstandby

PageShortage(s) == Available(s) <= MinAvailForAlloc

PageSufficience(s) == Available(s) >= 2 * MinAvailForAlloc

(* Faulty: a shortage is not reported to the balancer.                     *)
CheckShortageUnbalanced(s) ==
  IF ~PageShortage(s) THEN s
  ELSE [s EXCEPT !.wasShortage = TRUE, !.ev.sufficient = FALSE,
                 !.ev.pgwriter = @ \/ s.stat.nmodified > ModifiedSignal]

(* check_shortage(): its result is PageShortage(s).                        *)
CheckShortage(s) ==
  IF ~PageShortage(s) THEN s
  ELSE [s EXCEPT
          !.wasShortage = TRUE,
          !.ev.sufficient = FALSE,
          !.ev.pgwriter = @ \/ s.stat.nmodified > ModifiedSignal,
          !.ev.balancer = @ \/ s.stat.nmodified + s.stat.nstandby < 2 * MinAvailForAlloc]

(* vmp_page_retain_locked(): the first reference takes the page off the    *)
(* queue its dirty bit names.                                              *)
PageRetain(s, p) ==
  LET pg == s.page[p]
      t  == [s EXCEPT !.page[p].refcnt = @ + 1]
  IN  IF pg.refcnt # 0 THEN Then(s, t)
      ELSE Kassert(s, pg.use # "Deleted", "resident.c:145",
             IF pg.dirty
             THEN Kassert(s, Contains(s.modified, p), "resident.c:147",
                    [t EXCEPT !.modified = Unlink(@, p),
                              !.stat.nmodified = @ - 1, !.stat.nactive = @ + 1])
             ELSE Kassert(s, Contains(s.standby, p), "resident.c:151",
                    [t EXCEPT !.standby = Unlink(@, p),
                              !.stat.nstandby = @ - 1, !.stat.nactive = @ + 1]))

(* The end of vmp_page_release_locked(): tell those who wait for pages.    *)
AnnounceSufficience(s) ==
  IF s.wasShortage /\ PageSufficience(s)
  THEN [s EXCEPT !.wasShortage = FALSE, !.ev.sufficient = TRUE]
  ELSE s

(* The last reference to page p is gone: the page goes to a queue.  One    *)
(* that was deleted goes to the front of the free queue, and nobody is     *)
(* told.                                                                   *)
Requeue(s, p) ==
  LET t == [s EXCEPT !.stat.nactive = @ - 1]
  IN  CASE s.page[p].use = "Deleted" ->
             [t EXCEPT !.free = << p >> \o @, !.stat.nfree = @ + 1,
                       !.page[p].use = "Free"]
        [] s.page[p].use = "AnonPrivate" ->
             AnnounceSufficience(CheckShortage(
               IF s.page[p].dirty
               THEN [t EXCEPT !.modified = Append(@, p), !.stat.nmodified = @ + 1]
               ELSE [t EXCEPT !.standby = Append(@, p), !.stat.nstandby = @ + 1]))
        [] OTHER -> Kfatal(s, "resident.c:183")

(* vmp_page_release_locked().                                              *)
PageRelease(s, p) ==
  LET t == [s EXCEPT !.page[p].refcnt = @ - 1]
  IN  Kassert(s, s.page[p].refcnt > 0 /\ s.page[p].use # "Free", "resident.c:164",
        IF t.page[p].refcnt = 0 THEN Requeue(t, p) ELSE t)
=============================================================================
