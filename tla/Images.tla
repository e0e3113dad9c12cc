------------------------------- MODULE Images -------------------------------
(***************************************************************************)
(* ImageService: list, delete, rename. Saved images come from              *)
(* `node action save-image`.                                               *)
(***************************************************************************)
EXTENDS Nodes

CONSTANTS
    OldImages, \* the saved images at first: a function from ids to names
    NewImages  \* ids the API gives to saved images

VARIABLES images \* the saved images of the API

ImagesInit == images = OldImages

-----------------------------------------------------------------------------
DeleteImage(p) ==
    SendChange(p, "image-delete", Request("DELETE", "image", cmd[p].target))

RenameImage(p) ==
    SendChange(p, "image-rename",
               Request("PUT", "image", [id |-> cmd[p].target, name |-> cmd[p].name]))

ListImages(p) ==
    Begins(p, "image-list") /\ Ask(p, "image-list", Request("GET", "images", None))

ImagesListed(p) == pc[p] = "image-list" /\ Has(p, "ok") /\ Succeed(p, Value(p))

-----------------------------------------------------------------------------
(* The API (external).                                                     *)

MakeImage(p) ==
    /\ \E m \in wire[p], i \in NewImages :
         /\ m.request.path = "images" /\ m.request.arg.node \in DOMAIN nodes
         /\ \A q \in Proc : i \notin created[q]
         /\ Take(p, m, i)
         /\ images' = [k \in DOMAIN images \cup {i} |->
                         IF k = i THEN m.request.arg.name ELSE images[k]]
         /\ created' = [created EXCEPT ![p] = @ \cup {i}]
    /\ UNCHANGED <<progressVars, disturbed>>

NameImage(p) ==
    /\ \E m \in wire[p] :
         /\ m.request.path = "image" /\ m.request.method = "PUT"
         /\ m.request.arg.id \in DOMAIN images
         /\ Take(p, m, None)
         /\ images' = [images EXCEPT ![m.request.arg.id] = m.request.arg.name]
    /\ UNCHANGED commandVars

DropImage(p) ==
    /\ \E m \in wire[p] :
         /\ m.request.path = "image" /\ m.request.method = "DELETE"
         /\ m.request.arg \in DOMAIN images
         /\ Take(p, m, None)
         /\ images' = [k \in DOMAIN images \ {m.request.arg} |-> images[k]]
    /\ UNCHANGED commandVars

AnswerImages(p) ==
    AnswerGet(p, "images", images) /\ UNCHANGED <<commandVars, images>>

-----------------------------------------------------------------------------
ImageStep(p) ==
    /\ \/ DeleteImage(p) \/ RenameImage(p) \/ ListImages(p) \/ ImagesListed(p)
       \/ Uncaught(p, {"image-list"})
    /\ UNCHANGED images

ImageApi(p) ==
    MakeImage(p) \/ NameImage(p) \/ DropImage(p) \/ AnswerImages(p)
=============================================================================
