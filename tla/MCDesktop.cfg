\* Two windows for three applications, so that ids are given out again.
CONSTANTS
  Width = 6
  Height = 4
  GUI_TASKBAR_H = 1
  GUI_TITLEBAR_H = 1
  BtnSize = 1
  BtnMargin = 0
  BtnGap = 0
  GUI_MAX_WINDOWS = 2
  Apps = {"term", "edit", "about"}
  Geometry <- MCGeometry
  Icon <- MCIcon
  About = "about"
  StartButton <- MCStartButton
  MaxPresses = 5
SPECIFICATION Spec
INVARIANTS FocusSound DragSound TitleBarReachable OneWindowPerApp
