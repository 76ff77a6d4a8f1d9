------------------------------ MODULE PageFetch ------------------------------
(***************************************************************************)
(* What fetchPageIssues promises its caller about one page: FetchPage      *)
(* shows that the code keeps it, SyncService relies on it.                 *)
(***************************************************************************)

(* The possible answers for a page when fetching the issues in failed      *)
(* ended in an error of their own.  While the context lives, the answer is *)
(* every other issue of the page.  Once it is done, issues may be missing  *)
(* without any error being returned.                                       *)
PageResults(page, failed, ctxDone) ==
  IF ctxDone
    THEN [err : {"nil"}, issues : SUBSET (page \ failed)]
         \cup {[err |-> "err", issues |-> {}]}
    ELSE {[err |-> "nil", issues |-> page \ failed]}
=============================================================================
