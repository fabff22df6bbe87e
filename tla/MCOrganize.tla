------------------------------ MODULE MCOrganize ------------------------------
(* Galleries for Organize: a tagged and a faintly tagged character, a crowd,   *)
(* pages of one work, lone or alike, and a file no engine reads.               *)
EXTENDS Organize

LOCAL Analysis(id, strong, weak, noise, crowd, look, work) ==
  [id |-> id, strong |-> strong, weak |-> weak, noise |-> noise, crowd |-> crowd,
   look |-> look, work |-> work]

LOCAL Solo   == Analysis(1, {"miku"}, <<>>, {}, FALSE, "teal", NoWork)
LOCAL Faint  == Analysis(2, {}, <<"miku">>, {"luka"}, FALSE, "teal", "77")
LOCAL Crowd  == Analysis(3, {}, <<>>, {"miku"}, TRUE, "pink", NoWork)
LOCAL Pink   == Analysis(4, {}, <<>>, {}, FALSE, "pink", "77")
LOCAL Broken == Analysis(5, {}, <<>>, {}, FALSE, NoLook, NoWork)
LOCAL Page   == Analysis(6, {}, <<>>, {}, FALSE, "red", "77")
LOCAL Spread == Analysis(7, {}, <<>>, {}, FALSE, "teal", "77")

LOCAL Gallery(a, b, c, d) ==
  [f \in Files |-> CASE f = "i1" -> a [] f = "i2" -> b [] f = "k1" -> c [] OTHER -> d]

SomeGalleries ==
  {Gallery(Solo, Faint, Solo, Faint), Gallery(Crowd, Pink, Solo, Pink),
   Gallery(Page, Pink, Spread, Spread), Gallery(Pink, Pink, Pink, Broken)}

=============================================================================
