--------------------------- MODULE MCSceneFrames ---------------------------
(* The kinds of entities that loadEntities makes, and a lamp with a model. *)
EXTENDS SceneFrames

MCComponentSets ==
    {{"MODEL", "TRANSFORM"}, {"MODEL", "TEXTURE", "TRANSFORM"}, {"POINT_LIGHT", "TRANSFORM"},
     {"MODEL", "TEXTURE", "POINT_LIGHT", "TRANSFORM"}}
=============================================================================
