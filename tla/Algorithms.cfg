SPECIFICATION Spec
INVARIANTS
  VerdictsAreSound
  LayoutIsSound
  CastIsSound
  SpeakersAreSound
  TextIsAccounted
