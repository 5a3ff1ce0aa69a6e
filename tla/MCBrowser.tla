----------------------------- MODULE MCBrowser -----------------------------
(***************************************************************************)
(* The browser, model-checked on every tree of at most MaxNodes entries:    *)
(* MCBrowser.cfg for its promises, MCBrowserLinks.cfg for the documented    *)
(* update of the totals, MCBrowserLossy.cfg for deletion under lossy names. *)
(***************************************************************************)
EXTENDS Browser
=============================================================================
