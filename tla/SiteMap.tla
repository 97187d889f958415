------------------------------ MODULE SiteMap ------------------------------
(***************************************************************************)
(* The pages of a listing in the sitemap: the two loops of                 *)
(* sitemap_handler::handle (src/src/server/sitemap_handler.cpp) that turn a*)
(* number of posts into page/2/, page/3/ and so on, and what they are fed  *)
(* with by get_num_posts_per_page and DBStmt.                              *)
(***************************************************************************)
EXTENDS Integers

CONSTANTS
  Counts,    \* numbers of posts a listing may have
  Settings,  \* what wp_options may hold for posts_per_page: a number,
  NoSetting, \* no row,
  NoNumber,  \* or a text that is not a number
  Word,      \* 2 to the width of unsigned
  SizeWord   \* 2 to the width of size_t

ASSUME SiteMapAssumption ==
  /\ Counts \subseteq 0 .. Word - 1
  /\ Settings \subseteq Int
  /\ Word \in Nat \ {0, 1} /\ SizeWord \in Nat /\ Word <= SizeWord

VARIABLES
  listing,   \* "category", "front" (of www.nginxguts.com) or "other front"
  count,     \* the posts it has
  perPage,   \* num_posts_per_page
  numPosts,  \* num_posts, as the loop counts it down
  lastPage,  \* page
  listed,    \* the pages that have been added
  paging     \* "row", "loop", "done", or "crashed"

mapVars == <<listing, count, perPage, numPosts, lastPage, listed, paging>>

(* asInt leaves its result unset when the text is no number; the int is    *)
(* converted to size_t.                                                    *)
PageSizes(setting) ==
  CASE setting = NoSetting -> {10}
    [] setting = NoNumber  -> 0 .. SizeWord - 1
    [] OTHER               -> {setting % SizeWord}

MapInit ==
  /\ listing \in {"category", "front", "other front"}
  /\ count \in Counts
  /\ listing = "category" => count > 0
  /\ \E s \in Settings \cup {NoSetting, NoNumber} : perPage \in PageSizes(s)
  /\ numPosts = count
  /\ lastPage = 0 /\ listed = {}
  /\ paging = "row"

HasPages == listing # "other front" /\ numPosts > perPage

(* The row is fetched and the listing itself added.                        *)
ListFirst ==
  /\ paging = "row"
  /\ listed' = {1}
  /\ IF HasPages
     THEN /\ numPosts' = (numPosts - perPage) % Word
          /\ lastPage' = 1 /\ paging' = "loop"
     ELSE paging' = "done" /\ UNCHANGED <<numPosts, lastPage>>
  /\ UNCHANGED <<listing, count, perPage>>

AddPage ==
  /\ listed' = listed \cup {lastPage + 1}
  /\ lastPage' = (lastPage + 1) % Word
  /\ UNCHANGED <<listing, count, perPage>>

(* Mutant: a last page that is not full is forgotten.                      *)
CategoryPageFull ==
  /\ paging = "loop" /\ listing = "category"
  /\ AddPage
  /\ numPosts' = IF numPosts > perPage THEN numPosts - perPage ELSE 0
  /\ paging' = IF numPosts' < perPage THEN "done" ELSE "loop"

CategoryPage ==
  /\ paging = "loop" /\ listing = "category"
  /\ AddPage
  /\ numPosts' = IF numPosts > perPage THEN numPosts - perPage ELSE 0
  /\ paging' = IF numPosts' = 0 THEN "done" ELSE "loop"

(* Mutant: the loop goes on as long as there are posts.                    *)
FrontPageWhileAny ==
  /\ paging = "loop" /\ listing = "front"
  /\ AddPage
  /\ numPosts' = (numPosts - perPage) % Word
  /\ paging' = IF numPosts' # 0 THEN "loop" ELSE "done"

(* The difference may pass below zero; a remainder is never the divisor,   *)
(* and one by zero ends the process.                                       *)
FrontPage ==
  /\ paging = "loop" /\ listing = "front"
  /\ AddPage
  /\ numPosts' = (numPosts - perPage) % Word
  /\ paging' = IF perPage = 0 THEN "crashed"
               ELSE IF numPosts' % perPage = perPage THEN "loop" ELSE "done"

MapNext == ListFirst \/ CategoryPage \/ FrontPage

MapSpec == MapInit /\ [][MapNext]_mapVars

-----------------------------------------------------------------------------
(* The pages a listing of so many posts has, at so many a page.            *)
PagesOf(n, size) == { p \in 1 .. n : (p - 1) * size < n } \cup {1}

(* A category is listed with each of its pages and no other, and the front *)
(* page with its first two at most.                                        *)
PagesListed ==
  paging = "done" =>
    listed = CASE listing = "category"    -> PagesOf(count, perPage)
               [] listing = "front"       -> PagesOf(count, perPage) \cap {1, 2}
               [] listing = "other front" -> {1}

(* The loops end for every page size but zero, at which the first goes on  *)
(* adding pages and the second divides.                                    *)
PagingEnds ==
  (paging = "row" /\ (perPage > 0 \/ count = 0)) ~> paging = "done"

=============================================================================
