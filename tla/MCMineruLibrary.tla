---------------------------- MODULE MCMineruLibrary ----------------------------
(***************************************************************************)
(* A two-page PDF, extracted whole and in two parts of one page.  Both     *)
(* pages hold an image MinerU named "f"; page 2's is degraded and has a    *)
(* panel inside it; a second file has an image that is missing.            *)
(***************************************************************************)
EXTENDS MineruLibrary

CONSTANTS a, b, none, nobox, missing

Item(type, page, source, img, bytes, box, caption, dark) ==
  [type |-> type, page |-> page, source |-> source, text |-> type # "hollow", img |-> img,
   bytes |-> bytes, bbox |-> box, caption |-> caption, dark |-> dark]

Big == <<0, 0, 500, 500>>
Small == <<0, 0, 200, 200>>
Aside == <<600, 600, 900, 900>>

Figures(page) ==
  IF page = 0
    THEN << Item("chrome", 0, 0, none, missing, nobox, FALSE, FALSE),
            Item("image", 0, 0, <<0, "f">>, <<"a", "0">>, Big, TRUE, FALSE) >>
    ELSE << Item("chart", 0, 1, <<0, "f">>, <<"a", "1">>, Big, TRUE, TRUE),
            Item("image", 0, 1, <<0, "g">>, <<"a", "2">>, Small, FALSE, TRUE),
            Item("image", 0, 1, <<0, "h">>, <<"a", "3">>, Aside, FALSE, FALSE) >>

Part(page) == [pages |-> 1, first |-> page, items |-> Figures(page)]

(* Extracted whole, MinerU gives the images names of their own.            *)
WholeOf(name, other, bytes) ==
  [pages |-> 2, first |-> 0,
   items |-> << Item("image", 0, 0, <<0, other>>, <<bytes, "0">>, Big, TRUE, FALSE),
                Item("chart", 1, 1, <<0, name>>, <<bytes, "1">>, Big, TRUE, TRUE),
                Item("image", 1, 1, <<0, name>>, <<bytes, "1">>, Aside, FALSE, TRUE) >>]

Whole == WholeOf("f", "e", "a")
Other == WholeOf("f", "e", "b")

Broken ==
  [pages |-> 1, first |-> 0,
   items |-> << Item("image", 0, 0, <<0, "f">>, <<"b", "0">>, Big, FALSE, FALSE),
                Item("image", 0, 0, <<0, "i">>, missing, Small, FALSE, FALSE) >>]

Request(file, parts, sourcePages, merge, overwrite) ==
  [file |-> file, parts |-> parts, sourcePages |-> sourcePages, merge |-> merge,
   overwrite |-> overwrite]

FilesMC == {a, b}
RequestsMC ==
  { Request(a, <<Part(0), Part(1)>>, 2, TRUE, TRUE), Request(a, <<Part(1)>>, 2, TRUE, TRUE),
    Request(a, <<Whole>>, 2, FALSE, TRUE), Request(b, <<Other>>, 2, FALSE, FALSE),
    Request(b, <<Broken>>, 1, FALSE, TRUE) }
===============================================================================
