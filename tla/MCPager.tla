------------------------------ MODULE MCPager ------------------------------
(***************************************************************************)
(* A small page file for TLC: three pages besides the header, two contents *)
(* besides zeros, two refused writes.                                      *)
(***************************************************************************)
EXTENDS Pager

CONSTANTS a, b   \* two contents of a page that are not zeros

=============================================================================
