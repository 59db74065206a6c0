SPECIFICATION FairSpec
CONSTANTS
  default = default
  work = work
  Desktop = {default}
  DesktopVec <- oneDesktop
  Default = default
  Window = {w1, w2}
  Title = {mail, fader}
  NoTitle = NoTitle
  BlackList = {fader}
  QuietTitle = {fader}
  Nowhere = Nowhere
  Thread = {t1}
  Nobody = Nobody
PROPERTIES
  SectionIsReleased
  RecordFollowsScreen
