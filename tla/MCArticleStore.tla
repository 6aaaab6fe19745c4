--------------------------- MODULE MCArticleStore ---------------------------
(***************************************************************************)
(* Instances of ArticleStore for TLC: four articles, two of them of the    *)
(* same second, pages of two.                                              *)
(***************************************************************************)
EXTENDS ArticleStore

MCDate == <<1, 1, 2, 3>>
=============================================================================
